---- MODULE Spec2Model ----
(***************************************************************************)
(* Focus: the classification-to-decision engine.                           *)
(*   ActivityTracker (focus/activity.py)  - in-memory activity log,        *)
(*       streak detection, time-budget accounting                          *)
(*   Notifier (focus/notifier.py)         - escalation / cooldown machine  *)
(*   FocusDaemon (focus/daemon.py)        - the analysis cycle that drives *)
(*       both                                                              *)
(* Time is wall-clock seconds (integers); the clock advances in steps of   *)
(* half a minute.  One analysis cycle is one step at one instant.          *)
(***************************************************************************)
EXTENDS Integers, Sequences, FiniteSets, TLC

\* ------------------------------------------------------------------ bounds
MaxCycles == 3          \* analysis cycles in one run of the daemon
MaxTicks == 4           \* clock steps in one run of the daemon
MaxEntries == 2         \* largest configured max_history_entries
MaxBudgets == 2         \* budgets in the prompt file
MaxLines == 3           \* lines in the activity log a summary is built from
MaxGens == 2            \* generate_today calls on one day
MaxCaptures == 3        \* captures of the capture thread in one run
MaxScreenshots == 2     \* configured max_screenshots of the capture runs
DisplayCount == 2       \* active displays
MaxCalls == 4           \* notify_if_needed calls on one Notifier
MaxPromptLines == 2     \* bullet lines in the prompt file
MaxEdits == 1           \* writes of the prompt file
MaxStarts == 3          \* run_async() calls that start a daemon thread
MaxPolls == 3           \* poll() calls on one UsageTracker
MaxUsageTicks == 3      \* clock steps while the usage tracker is followed

\* ------------------------------------------------------- program constants
SecondsPerMinute == 60
FormatLastN == 10
DefaultCooldown == 120
DefaultPerMinutes == 60     \* per_minutes when the per clause is absent
RecentDays == 30                            \* _rank: get_recent(days=30)
UsageCap == 60              \* poll: most seconds one poll accumulates
SaveEvery == 300            \* poll: period of the periodic _save
DefaultCaptureInterval == 10                \* Config.capture_interval

None == -1                                  \* Python None for a timestamp
TickStep == SecondsPerMinute \div 2
StartTime == DefaultCooldown                \* time.time() at construction
Horizon == StartTime + MaxTicks * TickStep
SecondsPerDay == 24 * SecondsPerMinute * SecondsPerMinute
Today == RecentDays                         \* date.today() as a day number

Max(a, b) == IF a >= b THEN a ELSE b
Min(a, b) == IF a <= b THEN a ELSE b

\* ------------------------------------------------------------ models.py
FocusStatus == {"on_task", "off_task", "break", "unknown"}

\* text is a tuple of one-character strings; str.lower() on one character
Lower(ch) == CASE ch = "Y" -> "y" [] ch = "T" -> "t" [] OTHER -> ch
LowerText(s) == [i \in 1..Len(s) |-> Lower(s[i])]

\* Python: needle in hay
Contains(hay, needle) ==
    \E k \in 0..(Len(hay) - Len(needle)) :
        \A i \in 1..Len(needle) : hay[k + i] = needle[i]

Descriptions == {<<"Y", "T">>, <<"c", "y">>}

\* what the classifier may return in one cycle
Samples ==
    {[status |-> "on_task", activity_description |-> <<"c", "y">>],
     [status |-> "off_task", activity_description |-> <<"Y", "T">>],
     [status |-> "off_task", activity_description |-> <<"c", "y">>],
     [status |-> "break", activity_description |-> <<"Y", "T">>],
     [status |-> "unknown", activity_description |-> <<"c", "y">>]}

\* AnalysisResult as the analyzer builds it at time t
AnalysisResult(st, desc, t) ==
    [status |-> st, activity_description |-> desc, timestamp |-> t,
     suggestion |-> <<>>]

\* the same result with the classifier's optional suggestion text
WithSuggestion(result, text) == [result EXCEPT !.suggestion = text]

from_analysis(result) ==
    [timestamp |-> result.timestamp,
     activity_description |-> result.activity_description,
     status |-> result.status]

TimeBudget(p, mx, per) ==
    [activity_pattern |-> p, max_minutes |-> mx, per_minutes |-> per]

\* ------------------------------------------------------- prompt_loader.py
\* A number is the tuple of its decimal digits as written; int() of it
RECURSIVE IntOf(_)
IntOf(ds) ==
    IF ds = <<>> THEN 0
    ELSE 10 * IntOf(SubSeq(ds, 1, Len(ds) - 1)) + ds[Len(ds)]

\* no " per ..." between "min" and ")"
NoPer == [n |-> <<>>, unit |-> "none"]

\* " per <n> <unit>" with n possibly missing, as in "per hour"
PerClauses ==
    {NoPer} \cup [n : {<<>>, <<3, 0>>}, unit : {"min", "hour", "hours"}]

\* one line "<bullet> <pattern> (max <max> min<per>)" of the prompt file
PromptLineSet ==
    [bullet : {"-", "*", "#"}, pattern : {<<"Y", "T">>}, max : {<<1, 5>>},
     per : PerClauses]

\* (?:min(?:utes?)?|hr|hour) with the closing parenthesis right after it
UnitMatches(unit) == unit \in {"min", "minute", "minutes", "hr", "hour"}

\* (?:\s+per\s+(\d+)\s*(?:...))? and then \): the clause is absent, or it
\* has a number and a unit the pattern names
PerMatches(per) ==
    per = NoPer \/ (per.n # <<>> /\ UnitMatches(per.unit))

\* TIME_BUDGET_RE on one line: ^[-*]\s+(.+?)\s*\(max\s+(\d+)\s+min ... \)
LineMatches(line) ==
    /\ line.bullet \in {"-", "*"}
    /\ line.pattern # <<>>
    /\ line.max # <<>>
    /\ PerMatches(line.per)

\* the TimeBudget built from a match: group(3) is used as minutes whatever
\* the unit
BudgetOf(line) ==
    [activity_pattern |-> line.pattern,
     max_minutes |-> IntOf(line.max),
     per_minutes |-> IF line.per.n # <<>> THEN IntOf(line.per.n)
                     ELSE DefaultPerMinutes]

\* PromptLoader._extract_budgets: one budget per matching line, in order
RECURSIVE _extract_budgets(_)
_extract_budgets(content) ==
    IF content = <<>> THEN <<>>
    ELSE IF LineMatches(Head(content))
         THEN <<BudgetOf(Head(content))>> \o _extract_budgets(Tail(content))
         ELSE _extract_budgets(Tail(content))

NoPromptFile == [exists |-> FALSE, lines |-> <<>>]

\* PromptLoader._load: the budgets and the mtime the loader holds afterwards
_load_prompt(file, mtime) ==
    IF ~file.exists THEN [budgets |-> <<>>, mtime |-> 0]
    ELSE [budgets |-> _extract_budgets(file.lines), mtime |-> mtime]

\* a prompt file whose lines give the budgets bs
PromptFor(bs) ==
    [exists |-> TRUE,
     lines |-> [i \in 1..Len(bs) |->
                   [bullet |-> "-", pattern |-> bs[i].activity_pattern,
                    max |-> <<bs[i].max_minutes>>,
                    per |-> [n |-> <<bs[i].per_minutes>>, unit |-> "min"]]]]

\* ------------------------------------------------------------ activity.py
\* Python: s[-n:]
SliceLast_first(s, n) == SubSeq(s, 1, Min(n, Len(s)))

SliceLast(s, n) ==
    LET start == IF n > 0 THEN Max(Len(s) - n, 0) ELSE Min(0 - n, Len(s))
    IN  SubSeq(s, start + 1, Len(s))

SelectFrom(s, cutoff) == SelectSeq(s, LAMBDA r : r.timestamp >= cutoff)

_prune_history(h, t, c) ==
    LET kept == SelectFrom(h, t - c.history_window)
    IN  IF Len(kept) > c.max_history_entries
        THEN SliceLast(kept, c.max_history_entries)
        ELSE kept

record(h, result, t, c) == _prune_history(Append(h, from_analysis(result)), t, c)

\* the day a clock value falls on; the clock's zero is midnight of Today
DayOf(t) == Today + t \div SecondsPerDay

\* ActivityRecord.to_json_line: one line of the JSONL log; the timestamp is
\* written as ISO text, of which a reader uses the leading date
to_json_line(rec) ==
    [kind |-> "record", day |-> DayOf(rec.timestamp), status |-> rec.status]

IoOutcomes == {"ok", "oserror"}

\* the OSError of open() or write() is caught: the file keeps its lines
_append_log_raising(f, rec, io) ==
    IF io = "ok"
    THEN [log_file |-> Append(f, to_json_line(rec)), raised |-> FALSE]
    ELSE [log_file |-> f, raised |-> TRUE]

_append_log(f, rec, io) ==
    IF io = "ok"
    THEN [log_file |-> Append(f, to_json_line(rec)), raised |-> FALSE]
    ELSE [log_file |-> f, raised |-> FALSE]

RECURSIVE ScanBack_skip_oldest(_, _, _, _)
ScanBack_skip_oldest(h, i, st, start) ==
    IF i <= 1 THEN start
    ELSE IF h[i].status # st THEN start
    ELSE ScanBack_skip_oldest(h, i - 1, st, h[i].timestamp)

RECURSIVE ScanBack_nobreak(_, _, _, _)
ScanBack_nobreak(h, i, st, start) ==
    IF i = 0 THEN start
    ELSE IF h[i].status # st THEN ScanBack_nobreak(h, i - 1, st, start)
    ELSE ScanBack_nobreak(h, i - 1, st, h[i].timestamp)

\* the backward scan of get_current_streak: i is the next older index
RECURSIVE ScanBack(_, _, _, _)
ScanBack(h, i, st, start) ==
    IF i = 0 THEN start
    ELSE IF h[i].status # st THEN start
    ELSE ScanBack(h, i - 1, st, h[i].timestamp)

get_current_streak(h, t) ==
    IF Len(h) = 0 THEN <<"unknown", 0>>
    ELSE <<h[Len(h)].status,
           t - ScanBack(h, Len(h) - 1, h[Len(h)].status, h[Len(h)].timestamp)>>

get_off_task_duration_any(h, t) == get_current_streak(h, t)[2]

get_off_task_duration(h, t) ==
    LET s == get_current_streak(h, t)
    IN  IF s[1] = "off_task" THEN s[2] ELSE 0

\* what a call of get_current_streak, get_off_task_duration, check_budgets
\* or format_history leaves of self.history: they index, slice and iterate
LogAfterRead_pop(h) == SubSeq(h, 1, Len(h) - 1)

LogAfterRead(h) == h

BudgetLog_everything(h, all) == all

\* the list check_budgets iterates, self.history, all being every record
\* handed to record() so far
BudgetLog(h, all) == h

\* the loop over the records of check_budgets for one budget
RECURSIVE BudgetSeconds_next_matching(_, _, _, _, _)
BudgetSeconds_next_matching(h, i, b, t, c) ==
    IF i > Len(h) THEN 0
    ELSE LET rest == BudgetSeconds_next_matching(h, i + 1, b, t, c)
             cutoff == t - b.per_minutes * SecondsPerMinute
         IN  IF h[i].timestamp < cutoff THEN rest
             ELSE IF Contains(LowerText(h[i].activity_description),
                              LowerText(b.activity_pattern))
                  THEN (IF i + 1 <= Len(h)
                           /\ Contains(LowerText(h[i + 1].activity_description),
                                       LowerText(b.activity_pattern))
                        THEN h[i + 1].timestamp - h[i].timestamp
                        ELSE c.analysis_interval) + rest
                  ELSE rest

RECURSIVE BudgetSeconds(_, _, _, _, _)
BudgetSeconds(h, i, b, t, c) ==
    IF i > Len(h) THEN 0
    ELSE LET rest == BudgetSeconds(h, i + 1, b, t, c)
             cutoff == t - b.per_minutes * SecondsPerMinute
         IN  IF h[i].timestamp < cutoff THEN rest
             ELSE IF Contains(LowerText(h[i].activity_description),
                              LowerText(b.activity_pattern))
                  THEN (IF i + 1 <= Len(h)
                        THEN h[i + 1].timestamp - h[i].timestamp
                        ELSE c.analysis_interval) + rest
                  ELSE rest

\* Python: f"{total_seconds / 60:.0f}" (round half to even)
RoundMinutes(secs) ==
    LET q == secs \div SecondsPerMinute
        r == secs % SecondsPerMinute
    IN  IF 2 * r > SecondsPerMinute THEN q + 1
        ELSE IF 2 * r < SecondsPerMinute THEN q
        ELSE IF q % 2 = 0 THEN q ELSE q + 1

Exceeds_inclusive(total_seconds, b) ==
    total_seconds >= b.max_minutes * SecondsPerMinute

Exceeds(total_seconds, b) == total_seconds > b.max_minutes * SecondsPerMinute

RECURSIVE check_budgets(_, _, _, _)
check_budgets(h, bs, t, c) ==
    IF bs = <<>> THEN <<>>
    ELSE LET b == Head(bs)
             total_seconds == BudgetSeconds(h, 1, b, t, c)
             rest == check_budgets(h, Tail(bs), t, c)
         IN  IF Exceeds(total_seconds, b)
             THEN <<[pattern |-> b.activity_pattern,
                     used |-> RoundMinutes(total_seconds),
                     cap |-> b.max_minutes]>> \o rest
             ELSE rest

format_history(h, t) ==
    IF Len(h) = 0 THEN [entries |-> <<>>, streak |-> <<"none", 0>>, at |-> t]
    ELSE [entries |-> SliceLast(h, FormatLastN),
          streak |-> get_current_streak(h, t),
          at |-> t]

\* ------------------------------------------------------------ notifier.py
OsascriptOutcomes == {"ok", "nonzero_exit", "timeout", "oserror"}
PopenOutcomes == {"ok", "oserror"}
SinkInputs == [compile : BOOLEAN, popen : PopenOutcomes, osascript : OsascriptOutcomes]

\* subprocess.run(["osascript", ...], check=True, timeout=5): the two caught
\* exceptions return normally, any other exception leaves the method
_send_system(snk) ==
    CASE snk.osascript = "ok" -> [sink |-> "system_ok", raised |-> FALSE]
      [] snk.osascript = "nonzero_exit" -> [sink |-> "nonzero_exit", raised |-> FALSE]
      [] snk.osascript = "timeout" -> [sink |-> "timeout", raised |-> FALSE]
      [] OTHER -> [sink |-> "unavailable", raised |-> TRUE]

\* bin is the cached self._banner_bin (TRUE when set)
_send_banner(bin, snk) ==
    IF ~bin /\ ~snk.compile
    THEN [banner_bin |-> FALSE] @@ _send_system(snk)
    ELSE IF snk.popen = "ok"
         THEN [banner_bin |-> TRUE, sink |-> "banner_ok", raised |-> FALSE]
         ELSE [banner_bin |-> TRUE] @@ _send_system(snk)

_send(bin, snk, c) ==
    IF c.notification_style = "banner"
    THEN _send_banner(bin, snk)
    ELSE [banner_bin |-> bin] @@ _send_system(snk)

IsEscalated_inverted(escalation_time, c) == escalation_time <= c.escalation_delay

IsEscalated_strict(escalation_time, c) == escalation_time > c.escalation_delay

IsEscalated(escalation_time, c) == escalation_time >= c.escalation_delay

CooldownActive_wrong_knob(time_since_last, c) ==
    time_since_last < c.escalation_delay

CooldownActive_never(time_since_last, c) == FALSE

CooldownActive(time_since_last, c) == time_since_last < c.notification_cooldown

\* the branch taken for a sample that is not off_task
BackOnTask_keep(n) == n.escalation_start

BackOnTask_stale(n) == n.last_notification_time

BackOnTask(n) == None

NoMessage == [kind |-> "none", text |-> <<>>, minutes |-> None,
              activity |-> <<>>]

\* Python: result.suggestion or fallback (None and "" are both falsy)
SuggestionOr(suggestion, fallback) ==
    IF suggestion # <<>>
    THEN [kind |-> "suggestion", text |-> suggestion, minutes |-> None,
          activity |-> <<>>]
    ELSE fallback

\* _send_gentle: the message handed to _send
GentleMessage(result) ==
    SuggestionOr(result.suggestion,
                 [kind |-> "gentle_template", text |-> <<>>,
                  minutes |-> None,
                  activity |-> result.activity_description])

\* _send_urgent: the message handed to _send; int() truncates
UrgentMessage(result, off_task_duration) ==
    SuggestionOr(result.suggestion,
                 [kind |-> "urgent_template", text |-> <<>>,
                  minutes |-> off_task_duration \div SecondsPerMinute,
                  activity |-> result.activity_description])

EscalationStart_restart(n, t) == t

EscalationStart(n, t) ==
    IF n.escalation_start = None THEN t ELSE n.escalation_start

\* n is the notifier's state; the result names what the call did
notify_if_needed(n, result, off_task_duration, t, c, snk) ==
    IF result.status # "off_task"
    THEN [last_notification_time |-> n.last_notification_time,
          escalation_start |-> BackOnTask(n),
          banner_bin |-> n.banner_bin,
          level |-> "none", sink |-> "none", raised |-> FALSE,
          suppressed |-> FALSE, message |-> NoMessage]
    ELSE IF CooldownActive(t - n.last_notification_time, c)
    THEN [last_notification_time |-> n.last_notification_time,
          escalation_start |-> n.escalation_start,
          banner_bin |-> n.banner_bin,
          level |-> "none", sink |-> "none", raised |-> FALSE,
          suppressed |-> TRUE, message |-> NoMessage]
    ELSE LET start == EscalationStart(n, t)
             is_escalated == IsEscalated(t - start, c)
             sent == _send(n.banner_bin, snk, c)
         IN  [last_notification_time |->
                  IF sent.raised THEN n.last_notification_time ELSE t,
              escalation_start |-> start,
              banner_bin |-> sent.banner_bin,
              level |-> IF is_escalated THEN "urgent" ELSE "gentle",
              sink |-> sent.sink, raised |-> sent.raised,
              suppressed |-> FALSE,
              message |-> IF is_escalated
                          THEN UrgentMessage(result, off_task_duration)
                          ELSE GentleMessage(result)]

\* ------------------------------------------------------------- summary.py
\* Scores and percentages are held in tenths (80.0 is 800): the code rounds
\* them to one decimal place before it stores or compares them.
RANKINGS ==
    <<"waste of ATP", "lazy", "nothing special", "productive", "paul dirac">>

\* 0.4, 0.7, 1.1, 1.4 in tenths
_RANK_THRESHOLDS == <<4, 7, 11, 14>>

NeutralScore == 10 * 50

\* Python round(): to the nearest integer, a tie to the even one
RoundHalfEven(num, den) ==
    LET q == num \div den
        r == num % den
    IN  IF 2 * r < den THEN q
        ELSE IF 2 * r > den THEN q + 1
        ELSE IF q % 2 = 0 THEN q ELSE q + 1

\* round(num / den * 100, 1), in tenths
RoundPct(num, den) == RoundHalfEven(num * 100 * 10, den)

RECURSIVE SumSeq(_)
SumSeq(q) == IF q = <<>> THEN 0 ELSE q[1] + SumSeq(Tail(q))

NoFile == [kind |-> "absent"]
CorruptFile == [kind |-> "corrupt"]

\* the lines a JSONL log can hold: a record written by to_json_line,
\* text that is not JSON, JSON that is not an object, an object without
\* a timestamp key, an object whose timestamp is not text, a blank line
LineKinds ==
    {"record", "not_json", "non_object", "no_timestamp", "bad_timestamp",
     "blank"}

Line(kind) == [kind |-> kind, day |-> None, status |-> "unknown"]

\* one line of the loop of _load_activity_log: "raise" is the AttributeError
\* of record.get or ts.startswith, which neither except clause names
LineEffect(ln, day) ==
    CASE ln.kind = "blank" -> "skip"
      [] ln.kind = "not_json" -> "skip"
      [] ln.kind = "non_object" -> "raise"
      [] ln.kind = "bad_timestamp" -> "raise"
      [] ln.kind = "no_timestamp" -> "skip"
      [] OTHER -> IF ln.day = day THEN "append" ELSE "skip"

RECURSIVE ScanLog(_, _, _, _)
ScanLog(f, i, day, records) ==
    IF i > Len(f) THEN [records |-> records, raised |-> FALSE]
    ELSE LET eff == LineEffect(f[i], day)
         IN  IF eff = "raise" THEN [records |-> <<>>, raised |-> TRUE]
             ELSE IF eff = "append"
                  THEN ScanLog(f, i + 1, day, Append(records, f[i]))
                  ELSE ScanLog(f, i + 1, day, records)

_load_activity_log(f, day) == ScanLog(f, 1, day, <<>>)

CountStatus(records, st) == Len(SelectSeq(records, LAMBDA r : r.status = st))

productive_checks_all(on_task, off_task, on_break) ==
    on_task + off_task + on_break

productive_checks(on_task, off_task, on_break) == on_task + off_task

_build_summary(records, day) ==
    LET total == Len(records)
        on_task == CountStatus(records, "on_task")
        off_task == CountStatus(records, "off_task")
        on_break == CountStatus(records, "break")
        productive == productive_checks(on_task, off_task, on_break)
    IN  [kind |-> "summary",
         date |-> day,
         score |-> IF productive > 0 THEN RoundPct(on_task, productive)
                   ELSE NeutralScore,
         on_task_pct |-> IF total > 0 THEN RoundPct(on_task, total) ELSE 0,
         off_task_pct |-> IF total > 0 THEN RoundPct(off_task, total) ELSE 0,
         checks |-> total,
         ranking |-> ""]

\* None for a missing file and for one that does not parse
_load(S, day) == IF S[day].kind = "summary" THEN S[day] ELSE NoFile

\* the summaries of today, yesterday, ..., the day (days - 1) before today
get_recent(S, days) ==
    SelectSeq([i \in 1..days |-> _load(S, Today - (i - 1))],
              LAMBDA x : x.kind = "summary")

past_scores_with_today(S) ==
    LET past == SelectSeq(get_recent(S, RecentDays), LAMBDA x : x.score > 0)
    IN  [i \in 1..Len(past) |-> past[i].score]

past_scores(S) ==
    LET past == SelectSeq(get_recent(S, RecentDays),
                          LAMBDA x : x.date # Today /\ x.score > 0)
    IN  [i \in 1..Len(past) |-> past[i].score]

\* score / (total / n) < threshold / 10, for total > 0
RatioBelow_above(score, total, n, threshold) ==
    10 * score * n > threshold * total

RatioBelow_inclusive(score, total, n, threshold) ==
    10 * score * n <= threshold * total

RatioBelow(score, total, n, threshold) == 10 * score * n < threshold * total

RECURSIVE RankFrom(_, _, _, _)
RankFrom(score, total, n, i) ==
    IF i > Len(_RANK_THRESHOLDS) THEN RANKINGS[Len(RANKINGS)]
    ELSE IF RatioBelow(score, total, n, _RANK_THRESHOLDS[i]) THEN RANKINGS[i]
    ELSE RankFrom(score, total, n, i + 1)

_rank(S, score) ==
    LET scores == past_scores(S)
        total == SumSeq(scores)
    IN  IF scores = <<>> THEN "productive"
        ELSE IF total = 0 THEN "productive"
        ELSE RankFrom(score, total, Len(scores), 1)

SaveOutcomes == {"ok", "open_error", "write_error"}

\* path.write_text: an OSError leaves the file as it was when open() fails
\* and truncated when the write fails; nothing catches it
_save(S, day, summary, io) ==
    CASE io = "ok" -> [summaries |-> [S EXCEPT ![day] = summary],
                       raised |-> FALSE]
      [] io = "open_error" -> [summaries |-> S, raised |-> TRUE]
      [] OTHER -> [summaries |-> [S EXCEPT ![day] = CorruptFile],
                   raised |-> TRUE]

generate_today(f, S, io) ==
    LET loaded == _load_activity_log(f, Today)
        built == _build_summary(loaded.records, Today)
        summary == [built EXCEPT !.ranking = _rank(S, built.score)]
        saved == _save(S, Today, summary, io)
    IN  IF loaded.raised
        THEN [summaries |-> S, raised |-> "AttributeError", summary |-> built]
        ELSE IF saved.raised
        THEN [summaries |-> saved.summaries, raised |-> "OSError",
              summary |-> summary]
        ELSE [summaries |-> saved.summaries, raised |-> "no",
              summary |-> summary]

\* ------------------------------------------------------------- config.py
BaseConfig ==
    [max_history_entries |-> MaxEntries,
     history_window |-> 4 * TickStep,
     notification_cooldown |-> TickStep,
     escalation_delay |-> TickStep,
     analysis_interval |-> TickStep,
     notification_style |-> "system"]

AllConfigs ==
    [max_history_entries : 0..MaxEntries,
     history_window : {2 * TickStep, 4 * TickStep},
     notification_cooldown : {0, TickStep, 2 * TickStep},
     escalation_delay : {0, TickStep, 2 * TickStep},
     analysis_interval : {0, TickStep},
     notification_style : {"system", "banner"}]

Differing(c) == Cardinality({f \in DOMAIN c : c[f] # BaseConfig[f]})

Configs == {c \in AllConfigs : Differing(c) <= 1}

\* prompt_loader.budgets: what the prompt file holds when a cycle starts
BudgetSet == {TimeBudget(<<"y", "t">>, 1, 2), TimeBudget(<<"Y">>, 0, 1)}

RECURSIVE SeqsUpTo(_, _)
SeqsUpTo(S, n) ==
    IF n = 0 THEN {<<>>}
    ELSE LET shorter == SeqsUpTo(S, n - 1)
         IN  shorter \cup {Append(s, x) : s \in shorter, x \in S}

BudgetLists == SeqsUpTo(BudgetSet, MaxBudgets)

BaseBudgets == <<TimeBudget(<<"y", "t">>, 1, 2), TimeBudget(<<"Y">>, 0, 1)>>

\* the configuration and the prompt file the daemon is started with
\* the third component: the activity log file can be opened for appending
Setups ==
    {<<c, BaseBudgets, TRUE>> : c \in Configs}
        \cup {<<BaseConfig, bs, TRUE>> : bs \in BudgetLists}
        \cup {<<BaseConfig, BaseBudgets, FALSE>>}

\* ------------------------------------------------------------------ state
VARIABLES
    now,                    \* the wall clock
    cfg,                    \* Config
    budgets,                \* PromptLoader._budgets
    history,                \* ActivityTracker.history
    last_notification_time, \* Notifier._last_notification_time
    escalation_start,       \* Notifier._escalation_start
    banner_bin,             \* Notifier._banner_bin is set
    crashed,                \* an exception left the analysis loop
    ncycles,                \* analysis cycles started
    next_cycle_at,          \* end of the sleep after the latest cycle
    alerts,                 \* alerts handed to the sink, oldest first
    run_alerts,             \* alerts since the latest non-off_task sample
    run_clean,              \* no sample of the off-task run was suppressed
    last,                   \* what the latest cycle read and did
    log_file,               \* the lines of the persistent JSONL activity log
    log_writable,           \* appending to the activity log succeeds
    latest,                 \* FocusDaemon._latest_status, _latest_activity
    recorded,               \* every record handed to record(), oldest first
    run_first,              \* time of the first off_task sample of the run
    summaries,              \* summaries/<day>.json, by day number
    gens,                   \* outcomes of the generate_today calls, in order
    ranked,                 \* the latest application of _rank
    slot,                   \* FocusDaemon._latest_screenshots
    lock,                   \* who holds FocusDaemon._screenshot_lock
    ppc,                    \* where the capture thread is in its loop
    paths,                  \* the capture thread's local paths
    _counter,               \* ScreenCapture._counter
    ncaptures,              \* captures taken
    cpc,                    \* where the analysis thread is in its cycle
    screenshots,            \* the analysis thread's local screenshots
    writes,                 \* the values stored into the slot, in order
    snaps,                  \* per snapshot, how many stores preceded it
    _running,               \* FocusDaemon._running
    apc,                    \* where the analysis thread is in _analysis_loop
    sleep_left,             \* iterations left of the loop around time.sleep(1)
    inflight,               \* the cycle's local result
    status_lock,            \* who holds FocusDaemon._status_lock
    gpc,                    \* where the caller of stop() is
    stop_at,                \* where the analysis thread was when stop() ran
    after_stop,             \* cycles started, sleeps ended since stop()
    flight,                 \* what the current cycle has done
    accesses,               \* every access to shared state, with the locks held
    prompt,                 \* the prompt file: whether it exists, its lines
    prompt_mtime,           \* os.path.getmtime of the prompt file
    _mtime,                 \* PromptLoader._mtime
    nedits,                 \* how often the prompt file was written
    on_main,                \* run() started the daemon: the analysis loop is
                            \* on the main thread, stop() in its SIGTERM handler
    threads,                \* every thread the daemon has started, in order
    starts,                 \* run_async() calls that started a daemon thread
    nstops,                 \* stop() calls
    _today,                 \* UsageTracker._today: seconds per application
    _last_app,              \* UsageTracker._last_app
    _last_poll_time,        \* UsageTracker._last_poll_time
    pollers,                \* per thread, where it is in poll() and its locals
    usage_file,             \* usage/<today>.json
    polls,                  \* poll() calls started
    uticks                  \* clock steps taken while polls are followed

daemon_vars == <<now, cfg, budgets, history, last_notification_time,
                 escalation_start, banner_bin, crashed, ncycles, next_cycle_at,
                 alerts, run_alerts, run_clean, last, log_writable, latest,
                 recorded, run_first>>

summary_vars == <<summaries, gens, ranked>>

capture_vars == <<slot, lock, ppc, paths, _counter, ncaptures, cpc,
                  screenshots, writes, snaps>>

loop_vars == <<_running, apc, sleep_left, inflight, status_lock, gpc,
               stop_at, after_stop, flight, accesses>>

prompt_vars == <<prompt, prompt_mtime, _mtime, nedits>>

mode_vars == <<on_main>>

thread_vars == <<threads, starts, nstops>>

usage_vars == <<_today, _last_app, _last_poll_time, pollers, usage_file,
                polls, uticks>>

rest_vars == <<mode_vars, thread_vars, usage_vars>>

aux_vars == <<prompt_vars, rest_vars>>

vars == <<daemon_vars, log_file, summary_vars, capture_vars, loop_vars,
          aux_vars>>

\* what _run_analysis_cycle hands to notify_if_needed: the result and the
\* off-task duration; exceeded is printed when verbose and dropped
NotifyArgs(result, off_task_duration, exceeded) ==
    [result |-> result, off_task_duration |-> off_task_duration]

NoCycle ==
    [status |-> "none", at |-> None, fh |-> format_history(<<>>, StartTime),
     args |-> [off_task_duration |-> 0],
     streak |-> <<"unknown", 0>>, off |-> 0,
     exceeded |-> <<>>, level |-> "none", sink |-> "none",
     esc_before |-> None, lnt_before |-> 0,
     append |-> "none", record_raised |-> FALSE,
     totals |-> <<>>, message |-> NoMessage, suppressed |-> FALSE]

\* FocusDaemon.get_status once the analysis loop is running
StatusRunning == [status |-> "running", activity |-> <<>>]

NoSummaries == [d \in 0..Today |-> NoFile]

NoRank == [score |-> None, rank |-> "none", total |-> 0, n |-> 0]

\* no summary has been asked for
SummaryIdle ==
    /\ summaries = NoSummaries
    /\ gens = <<>>
    /\ ranked = NoRank

\* both threads are at the top of their loops, nothing captured yet
CaptureIdle ==
    /\ slot = <<>>
    /\ lock = "free"
    /\ ppc = "capture"
    /\ paths = <<>>
    /\ _counter = 0
    /\ ncaptures = 0
    /\ cpc = "idle"
    /\ screenshots = <<>>
    /\ writes = <<>>
    /\ snaps = <<>>

\* the analyzer returned None
NoResult == AnalysisResult("none", <<>>, None)

NoFlight == [stop_in_flight |-> FALSE, result |-> NoResult, steps |-> {}]

\* the analysis thread is at the top of its loop and stop() was not called
LoopIdle ==
    /\ _running = TRUE
    /\ apc = "loop_top"
    /\ sleep_left = 0
    /\ inflight = NoResult
    /\ status_lock = "free"
    /\ gpc = "idle"
    /\ stop_at = "none"
    /\ after_stop = [cycles |-> 0, sleeps |-> 0]
    /\ flight = NoFlight
    /\ accesses = {}

\* the prompt file is the one the budgets were loaded from
PromptLoaded ==
    /\ prompt = PromptFor(budgets)
    /\ prompt_mtime = 1
    /\ _mtime = 1
    /\ nedits = 0

\* run_async() started the daemon
StartedAsync == on_main = FALSE

\* the threads of the daemon are not followed
NoThreads ==
    /\ threads = <<>>
    /\ starts = 0
    /\ nstops = 0

\* the applications osascript can name, and its failure (Python None)
UsageApps == {"editor", "browser"}
NoApp == "none"

\* the threads that call poll(): the capture thread in _capture_loop, and
\* the thread that calls save() from stop() or from the GUI's menu
PollThreads == {"capture", "saver"}

NoUsage == [a \in UsageApps |-> 0]
NoUsageFile == [exists |-> FALSE, apps |-> NoUsage]
NotPolling == [pc |-> "idle", now |-> None, app |-> NoApp]

\* UsageTracker(config) with no usage file of today on disk
UsageIdle ==
    /\ _today = NoUsage
    /\ _last_app = NoApp
    /\ _last_poll_time = None
    /\ pollers = [th \in PollThreads |-> NotPolling]
    /\ usage_file = NoUsageFile
    /\ polls = 0
    /\ uticks = 0

RestIdle == StartedAsync /\ NoThreads /\ UsageIdle

AuxIdle == PromptLoaded /\ RestIdle

\* the daemon as it is constructed and started with the setup su
DaemonStart(su) ==
    /\ now = StartTime
    /\ cfg = su[1]
    /\ budgets = su[2]
    /\ log_writable = su[3]
    /\ latest = StatusRunning
    /\ history = <<>>
    /\ last_notification_time = 0
    /\ escalation_start = None
    /\ banner_bin = FALSE
    /\ crashed = FALSE
    /\ ncycles = 0
    /\ next_cycle_at = StartTime
    /\ alerts = <<>>
    /\ run_alerts = 0
    /\ run_clean = TRUE
    /\ last = NoCycle
    /\ recorded = <<>>
    /\ run_first = None

Init ==
    /\ \E su \in Setups : DaemonStart(su)
    /\ log_file = <<>>
    /\ SummaryIdle
    /\ CaptureIdle
    /\ LoopIdle
    /\ AuxIdle

\* time passes
Tick ==
    /\ now < Horizon
    /\ now' = now + TickStep
    /\ UNCHANGED <<cfg, budgets, history, last_notification_time, escalation_start,
                   banner_bin, crashed, ncycles, next_cycle_at, alerts,
                   run_alerts, run_clean, last, log_writable, latest,
                   recorded, run_first>>
    /\ UNCHANGED <<log_file, summary_vars, aux_vars, capture_vars, loop_vars>>

CanCycle == ~crashed /\ ncycles < MaxCycles /\ now >= next_cycle_at

\* _run_analysis_cycle when the analyzer returns a result
AnalysisCycle(st, desc, snk) ==
    LET fh == format_history(history, now)
        result == AnalysisResult(st, desc, now)
        h1 == record(LogAfterRead(history), result, now, cfg)
        io == IF log_writable THEN "ok" ELSE "oserror"
        lg == _append_log(log_file, from_analysis(result), io)
        all == Append(recorded, from_analysis(result))
        exceeded == check_budgets(BudgetLog(h1, all), budgets, now, cfg)
        off == get_off_task_duration(h1, now)
        n == IF lg.raised
             THEN [last_notification_time |-> last_notification_time,
                   escalation_start |-> escalation_start,
                   banner_bin |-> banner_bin, level |-> "none",
                   sink |-> "none", raised |-> TRUE, suppressed |-> FALSE,
                   message |-> NoMessage]
             ELSE notify_if_needed(
                      [last_notification_time |-> last_notification_time,
                       escalation_start |-> escalation_start,
                       banner_bin |-> banner_bin],
                      result, off, now, cfg, snk)
        clean == IF st # "off_task" THEN TRUE
                 ELSE run_clean /\ ~n.suppressed
    IN  /\ CanCycle
        /\ history' = LogAfterRead(h1)
        /\ recorded' = Append(recorded, from_analysis(result))
        /\ run_first' = IF st # "off_task" THEN None
                         ELSE IF run_first = None THEN now ELSE run_first
        /\ log_file' = lg.log_file
        /\ latest' = IF lg.raised THEN latest
                      ELSE [status |-> st, activity |-> desc]
        /\ last_notification_time' = n.last_notification_time
        /\ escalation_start' = n.escalation_start
        /\ banner_bin' = n.banner_bin
        /\ crashed' = n.raised
        /\ ncycles' = ncycles + 1
        /\ next_cycle_at' = now + cfg.analysis_interval
        /\ alerts' = IF n.level = "none" THEN alerts
                     ELSE Append(alerts, [at |-> now, level |-> n.level,
                                          nth |-> run_alerts + 1,
                                          streak |-> off, clean |-> clean])
        /\ run_alerts' = IF st # "off_task" THEN 0
                         ELSE IF n.level = "none" THEN run_alerts
                         ELSE run_alerts + 1
        /\ run_clean' = clean
        /\ last' = [status |-> st, at |-> now, fh |-> fh,
                    streak |-> get_current_streak(h1, now), off |-> off,
                    exceeded |-> exceeded,
                    level |-> n.level, sink |-> n.sink,
                    esc_before |-> escalation_start,
                    lnt_before |-> last_notification_time,
                    append |-> io, record_raised |-> lg.raised,
                    args |-> NotifyArgs(result, off, exceeded),
                    totals |-> [i \in 1..Len(budgets) |->
                                   BudgetSeconds(BudgetLog(h1, all), 1,
                                                 budgets[i], now, cfg)],
                    message |-> n.message, suppressed |-> n.suppressed]
        /\ UNCHANGED <<now, cfg, budgets, log_writable, summary_vars, aux_vars,
                       capture_vars, loop_vars>>

\* _run_analysis_cycle when the analyzer returns None
NoResultCycle_unknown ==
    /\ CanCycle
    /\ ncycles' = ncycles + 1
    /\ next_cycle_at' = now + cfg.analysis_interval
    /\ latest' = [status |-> "unknown", activity |-> <<>>]
    /\ last' = [NoCycle EXCEPT !.at = now, !.fh = format_history(history, now),
                               !.esc_before = escalation_start,
                               !.lnt_before = last_notification_time]
    /\ history' = LogAfterRead(history)
    /\ UNCHANGED <<now, cfg, budgets, last_notification_time,
                   escalation_start, banner_bin, crashed, alerts, run_alerts,
                   run_clean, log_writable, recorded, run_first>>
    /\ UNCHANGED <<log_file, summary_vars, aux_vars, capture_vars, loop_vars>>

NoResultCycle ==
    /\ CanCycle
    /\ ncycles' = ncycles + 1
    /\ next_cycle_at' = now + cfg.analysis_interval
    /\ last' = [NoCycle EXCEPT !.at = now, !.fh = format_history(history, now),
                               !.esc_before = escalation_start,
                               !.lnt_before = last_notification_time]
    /\ history' = LogAfterRead(history)
    /\ UNCHANGED <<now, cfg, budgets, last_notification_time,
                   escalation_start, banner_bin, crashed, alerts, run_alerts,
                   run_clean, log_writable, latest, recorded, run_first>>
    /\ UNCHANGED <<log_file, summary_vars, aux_vars, capture_vars, loop_vars>>

\* the sink is consulted only for an off_task sample
NoSink == [compile |-> FALSE, popen |-> "ok", osascript |-> "ok"]

Cycle ==
    \E smp \in Samples :
        \E snk \in IF smp.status = "off_task" THEN SinkInputs ELSE {NoSink} :
            AnalysisCycle(smp.status, smp.activity_description, snk)

Next == Tick \/ Cycle \/ NoResultCycle

Spec == Init /\ [][Next]_vars

\* ------------------------------------------------- the daily summary alone
LogLines ==
    {[kind |-> "record", day |-> Today, status |-> st] : st \in FocusStatus}
        \cup {[kind |-> "record", day |-> Today - 1, status |-> "on_task"]}
        \cup {Line(k) : k \in LineKinds \ {"record"}}

Logs == SeqsUpTo(LogLines, MaxLines)

BaseLog ==
    <<[kind |-> "record", day |-> Today, status |-> "on_task"],
      [kind |-> "record", day |-> Today, status |-> "off_task"]>>

\* a summary file as an earlier generate_today left it
StoredSummary(day, score) ==
    [kind |-> "summary", date |-> day, score |-> score,
     on_task_pct |-> score, off_task_pct |-> 10 * 100 - score,
     checks |-> 2, ranking |-> "productive"]

PriorScores == <<0, NeutralScore, 10 * 100>>

\* what the summary file of a day can hold
FileChoices(day) ==
    <<NoFile, CorruptFile>>
        \o [i \in 1..Len(PriorScores) |-> StoredSummary(day, PriorScores[i])]

\* the days whose summary file varies: today, yesterday, the oldest day
\* get_recent(days=30) loads and the day before that one
SummaryDays == {Today, Today - 1, Today - (RecentDays - 1), Today - RecentDays}

AllSummaries ==
    {[d \in 0..Today |-> IF d \in SummaryDays THEN FileChoices(d)[pick[d]]
                          ELSE NoFile] :
        pick \in [SummaryDays -> 1..(2 + Len(PriorScores))]}

BaseSummaries ==
    [NoSummaries EXCEPT ![Today - 1] = StoredSummary(Today - 1, NeutralScore)]

SummarySetups ==
    {<<f, BaseSummaries>> : f \in Logs}
        \cup {<<BaseLog, S>> : S \in AllSummaries}

InitSummary ==
    /\ DaemonStart(<<BaseConfig, BaseBudgets, TRUE>>)
    /\ \E su \in SummarySetups : log_file = su[1] /\ summaries = su[2]
    /\ gens = <<>>
    /\ ranked = NoRank
    /\ CaptureIdle
    /\ LoopIdle
    /\ AuxIdle

\* DailySummary.generate_today; io is what the file system does to _save
GenerateToday(io) ==
    LET g == generate_today(log_file, summaries, io)
    IN  /\ Len(gens) < MaxGens
        /\ summaries' = g.summaries
        /\ gens' = Append(gens, [raised |-> g.raised, summary |-> g.summary,
                                  io |-> io, stale |-> summaries[Today],
                                  stored |-> g.summaries[Today]])
        /\ ranked' = IF g.raised = "AttributeError" THEN ranked
                      ELSE [score |-> g.summary.score,
                            rank |-> g.summary.ranking,
                            total |-> SumSeq(past_scores(summaries)),
                            n |-> Len(past_scores(summaries))]
        /\ UNCHANGED <<daemon_vars, log_file, capture_vars, loop_vars, aux_vars>>

ScoreChoices == {150, 300, 400, 550, 700, 750}

\* DailySummary._rank applied to a score and the summaries as they are found
RankScore(score) ==
    /\ gens = <<>>
    /\ ranked' = [score |-> score, rank |-> _rank(summaries, score),
                  total |-> SumSeq(past_scores(summaries)),
                  n |-> Len(past_scores(summaries))]
    /\ UNCHANGED <<daemon_vars, log_file, summaries, gens, capture_vars,
                   loop_vars, aux_vars>>

NextSummary ==
    \/ \E io \in SaveOutcomes : GenerateToday(io)
    \/ \E score \in ScoreChoices : RankScore(score)

SpecSummary == InitSummary /\ [][NextSummary]_vars

\* ------------------------------------------------------ the notifier alone
\* the results notify_if_needed is called with
NotifierSamples ==
    {[status |-> "on_task", activity_description |-> <<"c", "y">>,
      suggestion |-> <<>>],
     [status |-> "break", activity_description |-> <<"c", "y">>,
      suggestion |-> <<>>],
     [status |-> "off_task", activity_description |-> <<"Y", "T">>,
      suggestion |-> <<>>],
     [status |-> "off_task", activity_description |-> <<"Y", "T">>,
      suggestion |-> <<"T">>]}

InitNotifier ==
    /\ \E c \in Configs : DaemonStart(<<c, BaseBudgets, TRUE>>)
    /\ log_file = <<>>
    /\ SummaryIdle
    /\ CaptureIdle
    /\ LoopIdle
    /\ AuxIdle

\* Notifier.notify_if_needed(result, off_task_duration), the duration being
\* the length of the off-task run so far
NotifyCall(smp, snk) ==
    LET st == smp.status
        result == WithSuggestion(
                      AnalysisResult(st, smp.activity_description, now),
                      smp.suggestion)
        first == IF st # "off_task" THEN None
                 ELSE IF run_first = None THEN now ELSE run_first
        off == IF st = "off_task" THEN now - first ELSE 0
        n == notify_if_needed(
                 [last_notification_time |-> last_notification_time,
                  escalation_start |-> escalation_start,
                  banner_bin |-> banner_bin],
                 result, off, now, cfg, snk)
        clean == IF st # "off_task" THEN TRUE
                 ELSE run_clean /\ ~n.suppressed
    IN  /\ ~crashed
        /\ ncycles < MaxCalls
        /\ last_notification_time' = n.last_notification_time
        /\ escalation_start' = n.escalation_start
        /\ banner_bin' = n.banner_bin
        /\ crashed' = n.raised
        /\ ncycles' = ncycles + 1
        /\ run_first' = first
        /\ alerts' = IF n.level = "none" THEN alerts
                     ELSE Append(alerts, [at |-> now, level |-> n.level,
                                          nth |-> run_alerts + 1,
                                          streak |-> off, clean |-> clean])
        /\ run_alerts' = IF st # "off_task" THEN 0
                         ELSE IF n.level = "none" THEN run_alerts
                         ELSE run_alerts + 1
        /\ run_clean' = clean
        /\ last' = [NoCycle EXCEPT !.status = st, !.at = now, !.off = off,
                                   !.level = n.level, !.sink = n.sink,
                                   !.esc_before = escalation_start,
                                   !.lnt_before = last_notification_time,
                                   !.message = n.message,
                                   !.suppressed = n.suppressed]
        /\ UNCHANGED <<now, cfg, budgets, history, next_cycle_at,
                       log_writable, latest, recorded>>
        /\ UNCHANGED <<log_file, summary_vars, aux_vars, capture_vars, loop_vars>>

NextNotifier ==
    \/ Tick
    \/ \E smp \in NotifierSamples :
           \E snk \in IF smp.status = "off_task" THEN SinkInputs ELSE {NoSink} :
               NotifyCall(smp, snk)

SpecNotifier == InitNotifier /\ [][NextNotifier]_vars

\* -------------------------------- the capture thread and the analysis thread
\* the file capture() writes for one display: its name is made of the
\* rolling counter and the display; shot tells the captures apart
ShotPath(counter, display, shot) ==
    [name |-> <<counter, display>>, shot |-> shot]

Displays == 1..DisplayCount

\* ScreenCapture.capture: one path per display whose screencapture and sips
\* ran through, in display order
capture(counter, ok, shot) ==
    LET all == [d \in Displays |-> ShotPath(counter, d, shot)]
    IN  SelectSeq(all, LAMBDA p : p.name[2] \in ok)

StoreLatest_extend(old, new) == old \o new

\* self._latest_screenshots = paths
StoreLatest(old, new) == new

\* list(self._latest_screenshots)
ListCopy(q) == [i \in 1..Len(q) |-> q[i]]

InitCapture ==
    /\ DaemonStart(<<BaseConfig, BaseBudgets, TRUE>>)
    /\ log_file = <<>>
    /\ SummaryIdle
    /\ CaptureIdle
    /\ LoopIdle
    /\ AuxIdle

\* _capture_loop: paths = self.capture.capture(); without a path the
\* thread sleeps and captures again
ProducerCapture(ok) ==
    LET next == (_counter + 1) % MaxScreenshots
        got == capture(next, ok, ncaptures + 1)
    IN  /\ ppc = "capture"
        /\ ncaptures < MaxCaptures
        /\ _counter' = next
        /\ ncaptures' = ncaptures + 1
        /\ paths' = got
        /\ ppc' = IF got # <<>> THEN "acquire" ELSE "capture"
        /\ UNCHANGED <<slot, lock, cpc, screenshots, writes, snaps>>
        /\ UNCHANGED <<daemon_vars, log_file, summary_vars, aux_vars, loop_vars>>

\* _capture_loop: with self._screenshot_lock
ProducerAcquire ==
    /\ ppc = "acquire"
    /\ lock = "free"
    /\ lock' = "producer"
    /\ ppc' = "store"
    /\ UNCHANGED <<slot, paths, _counter, ncaptures, cpc, screenshots, writes,
                   snaps>>
    /\ UNCHANGED <<daemon_vars, log_file, summary_vars, aux_vars, loop_vars>>

\* _capture_loop: self._latest_screenshots = paths
ProducerStore ==
    /\ ppc = "store"
    /\ slot' = StoreLatest(slot, paths)
    /\ writes' = Append(writes, paths)
    /\ ppc' = "release"
    /\ UNCHANGED <<lock, paths, _counter, ncaptures, cpc, screenshots, snaps>>
    /\ UNCHANGED <<daemon_vars, log_file, summary_vars, aux_vars, loop_vars>>

\* _capture_loop: the with block ends
ProducerRelease ==
    /\ ppc = "release"
    /\ lock' = "free"
    /\ ppc' = "capture"
    /\ UNCHANGED <<slot, paths, _counter, ncaptures, cpc, screenshots, writes,
                   snaps>>
    /\ UNCHANGED <<daemon_vars, log_file, summary_vars, aux_vars, loop_vars>>

\* _run_analysis_cycle: with self._screenshot_lock
ConsumerAcquire ==
    /\ cpc = "idle"
    /\ Len(snaps) < MaxCycles
    /\ lock = "free"
    /\ lock' = "consumer"
    /\ cpc' = "copy"
    /\ UNCHANGED <<slot, ppc, paths, _counter, ncaptures, screenshots, writes,
                   snaps>>
    /\ UNCHANGED <<daemon_vars, log_file, summary_vars, aux_vars, loop_vars>>

\* _run_analysis_cycle: screenshots = list(self._latest_screenshots)
ConsumerCopy ==
    /\ cpc = "copy"
    /\ screenshots' = ListCopy(slot)
    /\ snaps' = Append(snaps, Len(writes))
    /\ cpc' = "release"
    /\ UNCHANGED <<slot, lock, ppc, paths, _counter, ncaptures, writes>>
    /\ UNCHANGED <<daemon_vars, log_file, summary_vars, aux_vars, loop_vars>>

\* _run_analysis_cycle: the with block ends; without a screenshot the cycle
\* returns
ConsumerRelease ==
    /\ cpc = "release"
    /\ lock' = "free"
    /\ cpc' = IF screenshots = <<>> THEN "idle" ELSE "analyze"
    /\ UNCHANGED <<slot, ppc, paths, _counter, ncaptures, screenshots, writes,
                   snaps>>
    /\ UNCHANGED <<daemon_vars, log_file, summary_vars, aux_vars, loop_vars>>

\* _run_analysis_cycle: the analysis of the snapshot ends, and the cycle
ConsumerAnalyze ==
    /\ cpc = "analyze"
    /\ cpc' = "idle"
    /\ UNCHANGED <<slot, lock, ppc, paths, _counter, ncaptures, screenshots,
                   writes, snaps>>
    /\ UNCHANGED <<daemon_vars, log_file, summary_vars, aux_vars, loop_vars>>

NextCapture ==
    \/ \E ok \in SUBSET Displays : ProducerCapture(ok)
    \/ ProducerAcquire
    \/ ProducerStore
    \/ ProducerRelease
    \/ ConsumerAcquire
    \/ ConsumerCopy
    \/ ConsumerRelease
    \/ ConsumerAnalyze

SpecCapture == InitCapture /\ [][NextCapture]_vars

\* ------------------------------------------- run_async(), stop(), threads
\* a thread started in the n-th start of the daemon; pc is "top" before its
\* test of self._running, "body" between two tests, "exited" after its
\* loop; resumed: it passed the test although a later start had happened
Thread(kind, n) ==
    [kind |-> kind, gen |-> n, pc |-> "top", resumed |-> FALSE]

\* self._daemon_thread is not None and self._daemon_thread.is_alive()
DaemonThreadAlive ==
    \E i \in 1..Len(threads) :
        /\ threads[i].kind = "daemon"
        /\ threads[i].gen = starts
        /\ threads[i].pc # "exited"

\* FocusDaemon(config), before the first run_async()
InitThreads ==
    /\ DaemonStart(<<BaseConfig, BaseBudgets, TRUE>>)
    /\ log_file = <<>>
    /\ SummaryIdle
    /\ CaptureIdle
    /\ _running = FALSE
    /\ apc = "loop_top"
    /\ sleep_left = 0
    /\ inflight = NoResult
    /\ status_lock = "free"
    /\ gpc = "idle"
    /\ stop_at = "none"
    /\ after_stop = [cycles |-> 0, sleeps |-> 0]
    /\ flight = NoFlight
    /\ accesses = {}
    /\ PromptLoaded
    /\ StartedAsync
    /\ NoThreads
    /\ UsageIdle

\* run_async() while no daemon thread is alive: the flag is set, the
\* thread that runs _run_main_loop is started, the status is "starting";
\* while the daemon thread is alive the call returns at once
RunAsync ==
    /\ ~DaemonThreadAlive
    /\ starts < MaxStarts
    /\ _running' = TRUE
    /\ starts' = starts + 1
    /\ threads' = Append(threads, Thread("daemon", starts + 1))
    /\ latest' = [latest EXCEPT !.status = "starting"]
    /\ UNCHANGED <<now, cfg, budgets, history, last_notification_time,
                   escalation_start, banner_bin, crashed, ncycles,
                   next_cycle_at, alerts, run_alerts, run_clean, last,
                   log_writable, recorded, run_first>>
    /\ UNCHANGED <<apc, sleep_left, inflight, status_lock, gpc, stop_at,
                   after_stop, flight, accesses>>
    /\ UNCHANGED <<nstops, prompt_vars, mode_vars, usage_vars>>
    /\ UNCHANGED <<log_file, summary_vars, capture_vars>>

\* stop(): the flag is cleared and the status set; no thread is joined
StopDaemon ==
    /\ nstops < starts
    /\ nstops' = nstops + 1
    /\ _running' = FALSE
    /\ latest' = [status |-> "stopped", activity |-> <<>>]
    /\ UNCHANGED <<now, cfg, budgets, history, last_notification_time,
                   escalation_start, banner_bin, crashed, ncycles,
                   next_cycle_at, alerts, run_alerts, run_clean, last,
                   log_writable, recorded, run_first>>
    /\ UNCHANGED <<apc, sleep_left, inflight, status_lock, gpc, stop_at,
                   after_stop, flight, accesses>>
    /\ UNCHANGED <<threads, starts, prompt_vars, mode_vars, usage_vars>>
    /\ UNCHANGED <<log_file, summary_vars, capture_vars>>

\* _run_main_loop: the daemon thread starts the capture thread and enters
\* _analysis_loop
StartCapture(i) ==
    /\ threads[i].kind = "daemon"
    /\ threads[i].pc = "top"
    /\ \A j \in 1..Len(threads) :
           ~(threads[j].kind = "capture" /\ threads[j].gen = threads[i].gen)
    /\ threads' = Append(threads, Thread("capture", threads[i].gen))
    /\ UNCHANGED <<starts, nstops, prompt_vars, mode_vars, usage_vars>>
    /\ UNCHANGED <<daemon_vars, log_file, summary_vars, capture_vars,
                   loop_vars>>

\* while self._running, in _capture_loop and in _analysis_loop: the thread
\* leaves its loop when the flag is clear and runs the body otherwise
LoopTest(i) ==
    /\ threads[i].pc = "top"
    /\ threads[i].kind = "daemon" =>
           \E j \in 1..Len(threads) :
               threads[j].kind = "capture" /\ threads[j].gen = threads[i].gen
    /\ threads' =
           [threads EXCEPT
               ![i].pc = IF _running THEN "body" ELSE "exited",
               ![i].resumed = @ \/ (_running /\ threads[i].gen < starts)]
    /\ UNCHANGED <<starts, nstops, prompt_vars, mode_vars, usage_vars>>
    /\ UNCHANGED <<daemon_vars, log_file, summary_vars, capture_vars,
                   loop_vars>>

\* the body of the loop ends: time.sleep(capture_interval) in the capture
\* loop, the cycle and its sleep increments in the analysis loop, where
\* the flag is tested before every increment
LoopBody(i) ==
    /\ threads[i].pc = "body"
    /\ threads' =
           [threads EXCEPT
               ![i].pc = IF threads[i].kind = "daemon" /\ ~_running
                         THEN "exited" ELSE "top"]
    /\ UNCHANGED <<starts, nstops, prompt_vars, mode_vars, usage_vars>>
    /\ UNCHANGED <<daemon_vars, log_file, summary_vars, capture_vars,
                   loop_vars>>

NextThreads ==
    \/ RunAsync
    \/ StopDaemon
    \/ \E i \in 1..Len(threads) : StartCapture(i)
    \/ \E i \in 1..Len(threads) : LoopTest(i)
    \/ \E i \in 1..Len(threads) : LoopBody(i)

SpecThreads == InitThreads /\ [][NextThreads]_vars

\* -------------------------------------------------- UsageTracker.poll()
\* min(now - self._last_poll_time, 60)
Elapsed(t, prev) == Min(t - prev, UsageCap)

\* the clock steps the polls are followed over: a short one, and one longer
\* than the cap (the machine slept)
UsageSteps == {2, UsageCap + 1}

\* int(now) % 300 < self._config.capture_interval
Periodic(t) == t % SaveEvery < DefaultCaptureInterval

\* the state a thread is in after the locked part of poll(), or after the
\* early return: poll's periodic _save or save()'s own _save, or neither
AfterPoll(th, p) ==
    IF th = "saver" \/ Periodic(p.now)
    THEN [p EXCEPT !.pc = "save"]
    ELSE NotPolling

InitUsage ==
    /\ DaemonStart(<<BaseConfig, BaseBudgets, TRUE>>)
    /\ log_file = <<>>
    /\ SummaryIdle
    /\ CaptureIdle
    /\ LoopIdle
    /\ PromptLoaded
    /\ StartedAsync
    /\ NoThreads
    /\ UsageIdle

\* time passes
UsageTick(dt) ==
    /\ uticks < MaxUsageTicks
    /\ uticks' = uticks + 1
    /\ now' = now + dt
    /\ UNCHANGED <<cfg, budgets, history, last_notification_time,
                   escalation_start, banner_bin, crashed, ncycles,
                   next_cycle_at, alerts, run_alerts, run_clean, last,
                   log_writable, latest, recorded, run_first>>
    /\ UNCHANGED <<_today, _last_app, _last_poll_time, pollers, usage_file,
                   polls>>
    /\ UNCHANGED <<log_file, summary_vars, capture_vars, loop_vars,
                   prompt_vars, mode_vars, thread_vars>>

\* poll(), lines 34-38: now = time.time(); the day has not changed
PollStart(th) ==
    /\ pollers[th].pc = "idle"
    /\ polls < MaxPolls
    /\ polls' = polls + 1
    /\ pollers' = [pollers EXCEPT ![th] = [pc |-> "front", now |-> now,
                                           app |-> NoApp]]
    /\ UNCHANGED <<_today, _last_app, _last_poll_time, usage_file, uticks>>
    /\ UNCHANGED <<daemon_vars, log_file, summary_vars, capture_vars,
                   loop_vars, prompt_vars, mode_vars, thread_vars>>

\* poll(), lines 46-49: _get_frontmost_app() returns; without an
\* application the poll time is stored, outside the lock, and poll returns
PollFront(th, app) ==
    /\ pollers[th].pc = "front"
    /\ IF app = NoApp
       THEN /\ _last_poll_time' = pollers[th].now
            /\ pollers' = [pollers EXCEPT ![th] = AfterPoll(th, @)]
       ELSE /\ pollers' = [pollers EXCEPT ![th].pc = "locked",
                                          ![th].app = app]
            /\ UNCHANGED _last_poll_time
    /\ UNCHANGED <<_today, _last_app, usage_file, polls, uticks>>
    /\ UNCHANGED <<daemon_vars, log_file, summary_vars, capture_vars,
                   loop_vars, prompt_vars, mode_vars, thread_vars>>

\* poll(), lines 51-56: under self._lock the time since the last poll goes
\* to the application that was frontmost then
PollLocked(th) ==
    /\ pollers[th].pc = "locked"
    /\ _today' =
           IF _last_app # NoApp /\ _last_poll_time # None
           THEN [_today EXCEPT
                    ![_last_app] = @ + Elapsed(pollers[th].now,
                                               _last_poll_time)]
           ELSE _today
    /\ _last_app' = pollers[th].app
    /\ _last_poll_time' = pollers[th].now
    /\ pollers' = [pollers EXCEPT ![th] = AfterPoll(th, @)]
    /\ UNCHANGED <<usage_file, polls, uticks>>
    /\ UNCHANGED <<daemon_vars, log_file, summary_vars, capture_vars,
                   loop_vars, prompt_vars, mode_vars, thread_vars>>

\* _save(): the totals are copied under the lock and written to the file
PollSave(th) ==
    /\ pollers[th].pc = "save"
    /\ usage_file' = [exists |-> TRUE, apps |-> _today]
    /\ pollers' = [pollers EXCEPT ![th] = NotPolling]
    /\ UNCHANGED <<_today, _last_app, _last_poll_time, polls, uticks>>
    /\ UNCHANGED <<daemon_vars, log_file, summary_vars, capture_vars,
                   loop_vars, prompt_vars, mode_vars, thread_vars>>

NextUsage ==
    \/ \E dt \in UsageSteps : UsageTick(dt)
    \/ \E th \in PollThreads : PollStart(th)
    \/ \E th \in PollThreads, app \in UsageApps \cup {NoApp} :
           PollFront(th, app)
    \/ \E th \in PollThreads : PollLocked(th)
    \/ \E th \in PollThreads : PollSave(th)

SpecUsage == InitUsage /\ [][NextUsage]_vars

\* ------------------------------------------------- the prompt file alone
\* what a prompt file can hold
PromptContents == SeqsUpTo(PromptLineSet, MaxPromptLines)

\* PromptLoader(config) with no prompt file on disk
InitPrompt ==
    /\ DaemonStart(<<BaseConfig, <<>>, TRUE>>)
    /\ log_file = <<>>
    /\ SummaryIdle
    /\ CaptureIdle
    /\ LoopIdle
    /\ prompt = NoPromptFile
    /\ prompt_mtime = 0
    /\ _mtime = 0
    /\ nedits = 0
    /\ RestIdle

\* the user saves the prompt file
WritePrompt(content) ==
    /\ nedits < MaxEdits
    /\ nedits' = nedits + 1
    /\ prompt' = [exists |-> TRUE, lines |-> content]
    /\ prompt_mtime' = prompt_mtime + 1
    /\ UNCHANGED <<_mtime, rest_vars>>
    /\ UNCHANGED <<daemon_vars, log_file, summary_vars, capture_vars,
                   loop_vars>>

\* PromptLoader.reload_if_changed
ReloadIfChanged ==
    LET loaded == _load_prompt(prompt, prompt_mtime)
        changed == prompt.exists /\ prompt_mtime > _mtime
    IN  /\ changed
        /\ budgets' = loaded.budgets
        /\ _mtime' = loaded.mtime
        /\ UNCHANGED <<now, cfg, history, last_notification_time,
                       escalation_start, banner_bin, crashed, ncycles,
                       next_cycle_at, alerts, run_alerts, run_clean, last,
                       log_writable, latest, recorded, run_first>>
        /\ UNCHANGED <<prompt, prompt_mtime, nedits, rest_vars>>
        /\ UNCHANGED <<log_file, summary_vars, capture_vars, loop_vars>>

NextPrompt ==
    \/ \E content \in PromptContents : WritePrompt(content)
    \/ ReloadIfChanged

SpecPrompt == InitPrompt /\ [][NextPrompt]_vars

\* ------------------------------------------- the analysis loop and stop()
\* Config.analysis_interval in seconds, one time.sleep(1) each
LoopIntervals == {0, 2}

\* what the classifier returns in the loop: a result or None
LoopSamples ==
    {[status |-> "on_task", activity_description |-> <<"c", "y">>],
     [status |-> "off_task", activity_description |-> <<"Y", "T">>]}

\* how long one classification call takes
AnalyzeTimes == {0, TickStep}

\* the locks a thread holds: _screenshot_lock and _status_lock
HeldBy(thread) ==
    (IF thread = "analysis" /\ lock = "consumer"
     THEN {"_screenshot_lock"} ELSE {})
        \cup (IF status_lock = thread THEN {"_status_lock"} ELSE {})

Access(object, thread) ==
    [object |-> object, thread |-> thread, locks |-> HeldBy(thread)]

\* while self._running (line 121)
LoopContinues(running) == running

SleepExits_never(running) == FALSE

\* if not self._running: return (lines 125-126)
SleepExits(running) == ~running

AfterAnalyze_checks_running(result, running) ==
    IF result = NoResult \/ ~running THEN "for_top" ELSE "record"

\* if result is None: return (lines 150-151); the flag is not read
AfterAnalyze(result, running) ==
    IF result = NoResult THEN "for_top" ELSE "record"

\* the analysis loop is entered with the first screenshots in the slot
LoopEntered ==
    /\ \E i \in LoopIntervals :
           DaemonStart(<<[BaseConfig EXCEPT !.analysis_interval = i],
                         BaseBudgets, TRUE>>)
    /\ log_file = <<>>
    /\ SummaryIdle
    /\ slot = capture(1, Displays, 1)
    /\ lock = "free"
    /\ ppc = "capture"
    /\ paths = slot
    /\ _counter = 1
    /\ ncaptures = 1
    /\ cpc = "idle"
    /\ screenshots = <<>>
    /\ writes = <<slot>>
    /\ snaps = <<>>
    /\ LoopIdle

InitLoop == LoopEntered /\ AuxIdle

\* while self._running: self._run_analysis_cycle()
LoopTop ==
    /\ apc = "loop_top"
    /\ accesses' = accesses \cup {Access("_running", "analysis")}
    /\ IF LoopContinues(_running)
       THEN /\ ncycles < MaxCycles
            /\ ncycles' = ncycles + 1
            /\ apc' = "acquire"
            /\ flight' = NoFlight
            /\ after_stop' = IF _running THEN after_stop
                             ELSE [after_stop EXCEPT !.cycles = @ + 1]
       ELSE /\ apc' = "returned"
            /\ UNCHANGED <<ncycles, flight, after_stop>>
    /\ UNCHANGED <<now, cfg, budgets, history, last_notification_time,
                   escalation_start, banner_bin, crashed, next_cycle_at,
                   alerts, run_alerts, run_clean, last, log_writable, latest,
                   recorded, run_first>>
    /\ UNCHANGED <<_running, sleep_left, inflight, status_lock, gpc, stop_at>>
    /\ UNCHANGED <<log_file, summary_vars, aux_vars, capture_vars>>

\* _run_analysis_cycle: with self._screenshot_lock
LoopAcquire ==
    /\ apc = "acquire"
    /\ lock = "free"
    /\ lock' = "consumer"
    /\ apc' = "copy"
    /\ UNCHANGED <<slot, ppc, paths, _counter, ncaptures, cpc, screenshots,
                   writes, snaps>>
    /\ UNCHANGED <<_running, sleep_left, inflight, status_lock, gpc, stop_at,
                   after_stop, flight, accesses>>
    /\ UNCHANGED <<daemon_vars, log_file, summary_vars, aux_vars>>

\* _run_analysis_cycle: screenshots = list(self._latest_screenshots)
LoopCopy ==
    /\ apc = "copy"
    /\ screenshots' = ListCopy(slot)
    /\ accesses' = accesses \cup {Access("_latest_screenshots", "analysis")}
    /\ apc' = "release"
    /\ UNCHANGED <<slot, lock, ppc, paths, _counter, ncaptures, cpc, writes,
                   snaps>>
    /\ UNCHANGED <<_running, sleep_left, inflight, status_lock, gpc, stop_at,
                   after_stop, flight>>
    /\ UNCHANGED <<daemon_vars, log_file, summary_vars, aux_vars>>

\* _run_analysis_cycle: the with block ends; without a screenshot the cycle
\* returns to the loop
LoopRelease ==
    /\ apc = "release"
    /\ lock' = "free"
    /\ apc' = IF screenshots = <<>> THEN "for_top" ELSE "analyze"
    /\ sleep_left' = IF screenshots = <<>> THEN cfg.analysis_interval
                     ELSE sleep_left
    /\ UNCHANGED <<slot, ppc, paths, _counter, ncaptures, cpc, screenshots,
                   writes, snaps>>
    /\ UNCHANGED <<_running, inflight, status_lock, gpc, stop_at, after_stop,
                   flight, accesses>>
    /\ UNCHANGED <<daemon_vars, log_file, summary_vars, aux_vars>>

\* _run_analysis_cycle: self.analyzer.analyze(...) with the formatted
\* history returns res after dt seconds
LoopAnalyze(res, dt) ==
    LET result == IF res = NoResult THEN NoResult
                  ELSE AnalysisResult(res.status, res.activity_description,
                                      now + dt)
    IN  /\ apc = "analyze"
        /\ dt = 0 \/ now + dt <= Horizon
        /\ now' = now + dt
        /\ inflight' = result
        /\ flight' = [flight EXCEPT !.result = result]
        /\ accesses' = accesses \cup {Access("history", "analysis")}
        /\ apc' = AfterAnalyze(result, _running)
        /\ sleep_left' = IF AfterAnalyze(result, _running) = "for_top"
                         THEN cfg.analysis_interval ELSE sleep_left
        /\ UNCHANGED <<cfg, budgets, history, last_notification_time,
                       escalation_start, banner_bin, crashed, ncycles,
                       next_cycle_at, alerts, run_alerts, run_clean, last,
                       log_writable, latest, recorded, run_first>>
        /\ UNCHANGED <<_running, status_lock, gpc, stop_at, after_stop>>
        /\ UNCHANGED <<log_file, summary_vars, aux_vars, capture_vars>>

\* _run_analysis_cycle: self.tracker.record(result)
LoopRecord ==
    LET io == IF log_writable THEN "ok" ELSE "oserror"
        lg == _append_log(log_file, from_analysis(inflight), io)
    IN  /\ apc = "record"
        /\ history' = record(history, inflight, now, cfg)
        /\ recorded' = Append(recorded, from_analysis(inflight))
        /\ run_first' = IF inflight.status # "off_task" THEN None
                         ELSE IF run_first = None THEN now ELSE run_first
        /\ log_file' = lg.log_file
        /\ crashed' = lg.raised
        /\ flight' = [flight EXCEPT !.steps = @ \cup {"record"}]
        /\ accesses' = accesses \cup {Access("history", "analysis")}
        /\ apc' = IF lg.raised THEN "returned" ELSE "status_acquire"
        /\ UNCHANGED <<now, cfg, budgets, last_notification_time,
                       escalation_start, banner_bin, ncycles, next_cycle_at,
                       alerts, run_alerts, run_clean, last, log_writable,
                       latest>>
        /\ UNCHANGED <<_running, sleep_left, inflight, status_lock, gpc,
                       stop_at, after_stop>>
        /\ UNCHANGED <<summary_vars, aux_vars, capture_vars>>

\* _run_analysis_cycle: with self._status_lock
LoopStatusAcquire ==
    /\ apc = "status_acquire"
    /\ status_lock = "free"
    /\ status_lock' = "analysis"
    /\ apc' = "status_write"
    /\ UNCHANGED <<_running, sleep_left, inflight, gpc, stop_at, after_stop,
                   flight, accesses>>
    /\ UNCHANGED <<daemon_vars, log_file, summary_vars, aux_vars, capture_vars>>

\* _run_analysis_cycle: the status fields are set and the with block ends
LoopStatusWrite ==
    /\ apc = "status_write"
    /\ latest' = [status |-> inflight.status,
                  activity |-> inflight.activity_description]
    /\ accesses' = accesses \cup {Access("_latest_status", "analysis")}
    /\ status_lock' = "free"
    /\ apc' = "notify"
    /\ UNCHANGED <<now, cfg, budgets, history, last_notification_time,
                   escalation_start, banner_bin, crashed, ncycles,
                   next_cycle_at, alerts, run_alerts, run_clean, last,
                   log_writable, recorded, run_first>>
    /\ UNCHANGED <<_running, sleep_left, inflight, gpc, stop_at, after_stop,
                   flight>>
    /\ UNCHANGED <<log_file, summary_vars, aux_vars, capture_vars>>

\* _run_analysis_cycle: check_budgets, get_off_task_duration and
\* self.notifier.notify_if_needed(result, off_task_duration)
LoopNotify(snk) ==
    LET st == inflight.status
        exceeded == check_budgets(history, budgets, now, cfg)
        off == get_off_task_duration(history, now)
        n == notify_if_needed(
                 [last_notification_time |-> last_notification_time,
                  escalation_start |-> escalation_start,
                  banner_bin |-> banner_bin],
                 inflight, off, now, cfg, snk)
        clean == IF st # "off_task" THEN TRUE
                 ELSE run_clean /\ ~n.suppressed
    IN  /\ apc = "notify"
        /\ last_notification_time' = n.last_notification_time
        /\ escalation_start' = n.escalation_start
        /\ banner_bin' = n.banner_bin
        /\ crashed' = n.raised
        /\ alerts' = IF n.level = "none" THEN alerts
                     ELSE Append(alerts, [at |-> now, level |-> n.level,
                                          nth |-> run_alerts + 1,
                                          streak |-> off, clean |-> clean])
        /\ run_alerts' = IF st # "off_task" THEN 0
                         ELSE IF n.level = "none" THEN run_alerts
                         ELSE run_alerts + 1
        /\ run_clean' = clean
        /\ last' = [NoCycle EXCEPT !.status = st, !.at = now, !.off = off,
                                   !.exceeded = exceeded,
                                   !.level = n.level, !.sink = n.sink,
                                   !.esc_before = escalation_start,
                                   !.lnt_before = last_notification_time,
                                   !.message = n.message,
                                   !.suppressed = n.suppressed]
        /\ flight' = [flight EXCEPT !.steps = @ \cup {"notify"}]
        /\ accesses' = accesses \cup {Access("history", "analysis"),
                                      Access("_escalation_start", "analysis")}
        /\ apc' = IF n.raised THEN "returned" ELSE "for_top"
        /\ sleep_left' = cfg.analysis_interval
        /\ UNCHANGED <<now, cfg, budgets, history, ncycles, next_cycle_at,
                       log_writable, latest, recorded, run_first>>
        /\ UNCHANGED <<_running, inflight, status_lock, gpc, stop_at,
                       after_stop>>
        /\ UNCHANGED <<log_file, summary_vars, aux_vars, capture_vars>>

\* _analysis_loop: for _ in range(analysis_interval): if not
\* self._running: return; the next step is time.sleep(1)
ForTop ==
    /\ apc = "for_top"
    /\ IF sleep_left = 0
       THEN /\ apc' = "loop_top"
            /\ UNCHANGED <<sleep_left, accesses>>
       ELSE /\ accesses' = accesses \cup {Access("_running", "analysis")}
            /\ IF SleepExits(_running)
               THEN apc' = "returned" /\ UNCHANGED sleep_left
               ELSE apc' = "sleeping" /\ sleep_left' = sleep_left - 1
    /\ UNCHANGED <<_running, inflight, status_lock, gpc, stop_at, after_stop,
                   flight>>
    /\ UNCHANGED <<daemon_vars, log_file, summary_vars, aux_vars, capture_vars>>

\* _analysis_loop: time.sleep(1) returns
SleepEnd ==
    /\ apc = "sleeping"
    /\ now' = now + 1
    /\ after_stop' = IF _running THEN after_stop
                     ELSE [after_stop EXCEPT !.sleeps = @ + 1]
    /\ apc' = "for_top"
    /\ UNCHANGED <<cfg, budgets, history, last_notification_time,
                   escalation_start, banner_bin, crashed, ncycles,
                   next_cycle_at, alerts, run_alerts, run_clean, last,
                   log_writable, latest, recorded, run_first>>
    /\ UNCHANGED <<_running, sleep_left, inflight, status_lock, gpc, stop_at,
                   flight, accesses>>
    /\ UNCHANGED <<log_file, summary_vars, aux_vars, capture_vars>>

\* stop(): self._running = False
StopFlag ==
    /\ gpc = "idle"
    /\ _running' = FALSE
    /\ stop_at' = apc
    /\ flight' = [flight EXCEPT !.stop_in_flight = (apc = "analyze")]
    /\ accesses' = accesses \cup {Access("_running", "caller")}
    /\ gpc' = "stop_lock"
    /\ UNCHANGED <<apc, sleep_left, inflight, status_lock, after_stop>>
    /\ UNCHANGED <<daemon_vars, log_file, summary_vars, aux_vars, capture_vars>>

\* stop(): with self._status_lock
StopStatusAcquire ==
    /\ gpc = "stop_lock"
    /\ status_lock = "free"
    /\ status_lock' = "caller"
    /\ gpc' = "stop_write"
    /\ UNCHANGED <<_running, apc, sleep_left, inflight, stop_at, after_stop,
                   flight, accesses>>
    /\ UNCHANGED <<daemon_vars, log_file, summary_vars, aux_vars, capture_vars>>

\* stop(): the status fields are set and the with block ends
StopStatusWrite ==
    /\ gpc = "stop_write"
    /\ latest' = [status |-> "stopped", activity |-> <<>>]
    /\ accesses' = accesses \cup {Access("_latest_status", "caller")}
    /\ status_lock' = "free"
    /\ gpc' = "stopped"
    /\ UNCHANGED <<now, cfg, budgets, history, last_notification_time,
                   escalation_start, banner_bin, crashed, ncycles,
                   next_cycle_at, alerts, run_alerts, run_clean, last,
                   log_writable, recorded, run_first>>
    /\ UNCHANGED <<_running, apc, sleep_left, inflight, stop_at, after_stop,
                   flight>>
    /\ UNCHANGED <<log_file, summary_vars, aux_vars, capture_vars>>

\* get_status(): the three fields are read under self._status_lock
GetStatus ==
    /\ gpc \in {"idle", "stopped"}
    /\ status_lock = "free"
    /\ accesses' = accesses \cup
           {[object |-> o, thread |-> "caller", locks |-> {"_status_lock"}] :
                o \in {"_running", "_latest_status"}}
    /\ UNCHANGED <<_running, apc, sleep_left, inflight, status_lock, gpc,
                   stop_at, after_stop, flight>>
    /\ UNCHANGED <<daemon_vars, log_file, summary_vars, aux_vars, capture_vars>>

\* the steps of the thread that runs _analysis_loop
AnalysisThread ==
    \/ LoopTop
    \/ LoopAcquire
    \/ LoopCopy
    \/ LoopRelease
    \/ \E res \in LoopSamples \cup {NoResult} :
           \E dt \in AnalyzeTimes : LoopAnalyze(res, dt)
    \/ LoopRecord
    \/ LoopStatusAcquire
    \/ LoopStatusWrite
    \/ \E snk \in IF inflight.status = "off_task" THEN SinkInputs ELSE {NoSink} :
           LoopNotify(snk)
    \/ ForTop
    \/ SleepEnd

\* the steps of the thread that calls stop() and get_status()
Caller ==
    \/ StopFlag
    \/ StopStatusAcquire
    \/ StopStatusWrite
    \/ GetStatus

NextLoop == AnalysisThread \/ Caller

\* both threads keep being scheduled; a caller need not call stop()
SpecLoop ==
    /\ InitLoop
    /\ [][NextLoop]_vars
    /\ WF_vars(AnalysisThread)
    /\ WF_vars(StopStatusAcquire \/ StopStatusWrite)

\* --------------------------------------- run() and the SIGTERM handler
\* run(): signal.signal(SIGTERM, lambda *_: self.stop()) and the analysis
\* loop on the main thread
InitSignal ==
    /\ LoopEntered
    /\ PromptLoaded
    /\ on_main = TRUE
    /\ NoThreads
    /\ UsageIdle

\* the handler runs on the main thread: until stop() returns, the loop it
\* interrupted makes no step
InHandler == on_main /\ gpc \in {"stop_lock", "stop_write"}

\* the main thread goes on with the analysis loop
MainThread == ~InHandler /\ AnalysisThread

\* SIGTERM arrives between two steps of the main thread and stop() runs
SignalHandler == StopFlag \/ StopStatusAcquire \/ StopStatusWrite

NextSignal == MainThread \/ SignalHandler

\* the main thread keeps running, in the handler or in the loop
SpecSignal ==
    /\ InitSignal
    /\ [][NextSignal]_vars
    /\ WF_vars(MainThread)
    /\ WF_vars(StopStatusAcquire \/ StopStatusWrite)

\* =================================================================== claims
NotOffTask == FocusStatus \ {"off_task"}

SinkFailures == {"nonzero_exit", "timeout", "unavailable"}

AlertIdx == 1..Len(alerts)

\* C1: after any sequence of record() calls the in-memory log holds at most
\* max_history_entries records, whatever max_history_entries is configured
C1_LogWithinCap == Len(history) <= cfg.max_history_entries

\* C2: at every read of the log (here format_history at the start of a
\* cycle) every record it holds is no older than history_window seconds
C2_ReadsSeeOnlyFreshRecords ==
    \A i \in 1..Len(last.fh.entries) :
        last.fh.entries[i].timestamp >= last.fh.at - cfg.history_window

\* C3: any two dispatched alerts, gentle or urgent, are at least
\* notification_cooldown seconds apart, so two off_task samples closer
\* together than the cooldown dispatch exactly one alert
C3_AlertsCooldownApart ==
    \A i, j \in AlertIdx :
        i < j => alerts[j].at - alerts[i].at >= cfg.notification_cooldown

C3_Witness ==
    /\ cfg.notification_cooldown > 0
    /\ Len(alerts) = 1
    /\ last.status = "off_task"
    /\ last.level = "none"
    /\ last.at > alerts[1].at

\* C4: a sample that is not off_task dispatches no alert, leaves
\* escalation_start unset and leaves last_notification_time unchanged
C4_NotOffTaskFrame ==
    [][(ncycles' = ncycles + 1 /\ last'.status \in NotOffTask)
          => /\ alerts' = alerts
             /\ escalation_start' = None
             /\ last_notification_time' = last_notification_time]_vars

C4_Witness ==
    /\ last.status = "on_task"
    /\ last.esc_before # None
    /\ escalation_start = None
    /\ Len(alerts) >= 1
    /\ last_notification_time = alerts[Len(alerts)].at

\* C5 as stated: the first alert dispatched in any off-task run is gentle
C5_FirstAlertGentle ==
    \A i \in AlertIdx : alerts[i].nth = 1 => alerts[i].level = "gentle"

\* C5 amended: with escalation_delay > 0 the first alert dispatched in any
\* off-task run (from start-up or after a non-off_task sample) is gentle
C5_FirstAlertGentleWithDelay ==
    cfg.escalation_delay > 0 => C5_FirstAlertGentle

\* a second run restarts at gentle although the delay has passed since the
\* first run's alert
C5_Witness ==
    /\ cfg.escalation_delay > 0
    /\ Len(alerts) >= 2
    /\ alerts[1].nth = 1 /\ alerts[1].level = "gentle"
    /\ alerts[2].nth = 1 /\ alerts[2].level = "gentle"
    /\ alerts[2].at - alerts[1].at >= cfg.escalation_delay

\* C6: in an off-task run in which every sample found the cooldown elapsed,
\* every alert dispatched once the streak has lasted escalation_delay is urgent
C6_LongCleanStreakUrgent ==
    \A i \in AlertIdx :
        (alerts[i].clean /\ alerts[i].streak >= cfg.escalation_delay)
            => alerts[i].level = "urgent"

C6_Witness ==
    \E i \in AlertIdx :
        /\ cfg.escalation_delay > 0
        /\ alerts[i].clean
        /\ alerts[i].nth >= 2
        /\ alerts[i].streak = cfg.escalation_delay
        /\ alerts[i].level = "urgent"

\* C7: when the sink fails (non-zero exit, timeout, transport unavailable)
\* notify_if_needed still sets last_notification_time to now and returns
C7_FailedDispatchStillUpdates ==
    last.sink \in SinkFailures
        => (last_notification_time = last.at /\ ~crashed)

\* the streak as the specification words it: the status of the newest record
\* and the age of the earliest record of the maximal trailing run of it
TrailingRunStart(h) ==
    CHOOSE k \in 1..Len(h) :
        /\ \A j \in k..Len(h) : h[j].status = h[Len(h)].status
        /\ k = 1 \/ h[k - 1].status # h[Len(h)].status

StreakOf(h, t) ==
    IF h = <<>> THEN <<"unknown", 0>>
    ELSE <<h[Len(h)].status, t - h[TrailingRunStart(h)].timestamp>>

Rec(t, st, desc) ==
    [timestamp |-> t, activity_description |-> desc, status |-> st]

\* records at t = 0 (off_task), 10 (off_task), 20 (on_task)
ExampleLog ==
    <<Rec(0, "off_task", <<"Y", "T">>), Rec(10, "off_task", <<"Y", "T">>),
      Rec(20, "on_task", <<"c", "y">>)>>

\* C8: get_current_streak returns (unknown, 0) on an empty log, and otherwise
\* the newest record's status with now minus the timestamp of the earliest
\* record of the maximal trailing run of that status
C8_StreakIsTrailingRun ==
    /\ get_current_streak(<<>>, now) = <<"unknown", 0>>
    /\ get_current_streak(history, now) = StreakOf(history, now)
    /\ last.status # "none" => last.streak = StreakOf(history, last.at)
    /\ (last.at # None /\ Len(last.fh.entries) \in 1..(FormatLastN - 1))
           => last.fh.streak = StreakOf(last.fh.entries, last.at)
    /\ get_current_streak(SubSeq(ExampleLog, 1, 2), 2 * FormatLastN)
           = <<"off_task", 2 * FormatLastN>>

\* the scan passes one older record of the same status and stops at the
\* record of another status before it
C8_Witness ==
    /\ Len(history) >= 3
    /\ last.status # "none"
    /\ TrailingRunStart(history) = Len(history) - 1
    /\ last.streak[1] = history[Len(history)].status
    /\ last.streak[2] = last.at - history[Len(history) - 1].timestamp
    /\ last.streak[2] > 0

\* C9: get_off_task_duration returns the streak's duration when the newest
\* record is off_task and 0 otherwise; records off, off, on at t = 0, 10, 20
\* read at t = 20 give 0 and the streak (on_task, 0)
C9_OffTaskDuration ==
    /\ last.status # "none"
           => last.off = IF history[Len(history)].status = "off_task"
                         THEN StreakOf(history, last.at)[2] ELSE 0
    /\ get_off_task_duration(history, now)
           = IF history # <<>> /\ history[Len(history)].status = "off_task"
             THEN StreakOf(history, now)[2] ELSE 0
    /\ get_off_task_duration(ExampleLog, 2 * FormatLastN) = 0
    /\ get_current_streak(ExampleLog, 2 * FormatLastN) = <<"on_task", 0>>

\* both cases: an off_task streak in progress, and an on_task record that
\* has been the newest for a while
C9_Witness ==
    /\ Len(history) >= 2
    /\ history[Len(history)].status = "on_task"
    /\ history[1].status = "off_task"
    /\ now > history[Len(history)].timestamp
    /\ get_current_streak(history, now)[2] > 0
    /\ last.off = 0
    /\ \E i \in AlertIdx : alerts[i].streak > 0

\* the budgets whose estimated seconds are strictly above the cap, in order
RECURSIVE OverCap(_, _, _, _)
OverCap(h, bs, t, c) ==
    IF bs = <<>> THEN <<>>
    ELSE IF BudgetSeconds(h, 1, Head(bs), t, c)
                > Head(bs).max_minutes * SecondsPerMinute
         THEN <<Head(bs)>> \o OverCap(h, Tail(bs), t, c)
         ELSE OverCap(h, Tail(bs), t, c)

Matches(h, b) ==
    \E i \in 1..Len(h) :
        Contains(LowerText(h[i].activity_description),
                 LowerText(b.activity_pattern))

\* matches at t = 0 and t = 5 min, nominal interval 30 s, max 5 min per 60
ExampleBudgetLog ==
    <<Rec(0, "off_task", <<"Y", "T">>),
      Rec(5 * SecondsPerMinute, "off_task", <<"Y", "T">>)>>

ExampleBudget == TimeBudget(<<"y", "t">>, 5, SecondsPerMinute)

\* C10: check_budgets reports a budget exactly when its estimated matching
\* time is strictly above max_minutes; a budget without a matching record
\* and an empty log give no violation; budgets are evaluated independently
C10_ViolationIffOverCap ==
    /\ last.status # "none" =>
          LET over == OverCap(history, budgets, last.at, cfg)
          IN  /\ Len(last.exceeded) = Len(over)
              /\ \A i \in 1..Len(over) :
                    /\ last.exceeded[i].pattern = over[i].activity_pattern
                    /\ last.exceeded[i].cap = over[i].max_minutes
              /\ \A i \in 1..Len(budgets) :
                    ~Matches(history, budgets[i]) =>
                        \A j \in 1..Len(last.exceeded) :
                            last.exceeded[j].pattern # budgets[i].activity_pattern
    /\ check_budgets(<<>>, budgets, now, cfg) = <<>>
    /\ Len(budgets) = 2 =>
          check_budgets(history, budgets, now, cfg)
              = check_budgets(history, <<budgets[1]>>, now, cfg)
                    \o check_budgets(history, <<budgets[2]>>, now, cfg)
    /\ Len(check_budgets(ExampleBudgetLog, <<ExampleBudget>>,
                         5 * SecondsPerMinute, BaseConfig)) = 1
    /\ check_budgets(SubSeq(ExampleBudgetLog, 1, 1), <<ExampleBudget>>,
                     5 * SecondsPerMinute, BaseConfig) = <<>>

\* one record counts toward both budgets: the first sits exactly at its cap
\* and is not reported, the second is over its cap and is reported
C10_Witness ==
    /\ last.status # "none"
    /\ Len(budgets) = 2
    /\ budgets[1].max_minutes > 0
    /\ BudgetSeconds(history, 1, budgets[1], last.at, cfg)
           = budgets[1].max_minutes * SecondsPerMinute
    /\ Len(last.exceeded) = 1
    /\ last.exceeded[1].pattern = budgets[2].activity_pattern
    /\ budgets[1].activity_pattern # budgets[2].activity_pattern

\* ------------------------------------------------------ the daily summary
\* the well-formed lines of the day in the log, as a reader should see them
DayRecords(f) ==
    SelectSeq(f, LAMBDA ln : ln.kind = "record" /\ ln.day = Today)

OnCount == CountStatus(DayRecords(log_file), "on_task")

OffCount == CountStatus(DayRecords(log_file), "off_task")

GenIdx == 1..Len(gens)

Built(i) == gens[i].raised # "AttributeError"

\* C11 (as stated): the daily score equals on_task / (on_task + off_task)
\* * 100 over the day's records, break and unknown samples counting on
\* neither side; it is 50 without an on_task or off_task sample and lies in
\* [0, 100]
C11_ScoreExact ==
    \A i \in GenIdx :
        Built(i) =>
            LET score == gens[i].summary.score
            IN  /\ score >= 0 /\ score <= 10 * 100
                /\ IF OnCount + OffCount = 0 THEN score = 10 * 50
                   ELSE score * (OnCount + OffCount) = OnCount * 100 * 10

\* C11 (amended): the daily score is on_task / (on_task + off_task) * 100
\* rounded to one decimal place (within 0.05 of the quotient), 50 without
\* an on_task or off_task sample, and in [0, 100]
C11_ScoreRounded ==
    \A i \in GenIdx :
        Built(i) =>
            LET score == gens[i].summary.score
                productive == OnCount + OffCount
                diff == score * productive - OnCount * 100 * 10
            IN  /\ score >= 0 /\ score <= 10 * 100
                /\ IF productive = 0 THEN score = 10 * 50
                   ELSE 2 * diff <= productive /\ 2 * diff >= 0 - productive

\* a summary was built from a day whose quotient has more than one decimal
C11_Witness ==
    \E i \in GenIdx :
        /\ gens[i].raised = "no"
        /\ OnCount > 0 /\ OffCount > OnCount
        /\ gens[i].summary.score * (OnCount + OffCount) # OnCount * 100 * 10

PriorDays == {d \in 0..(Today - 1) : summaries[d].kind = "summary"}

RECURSIVE SumScores(_)
SumScores(D) ==
    IF D = {} THEN 0
    ELSE LET d == CHOOSE x \in D : TRUE
         IN  summaries[d].score + SumScores(D \ {d})

\* C13: the cold-start rank "productive" is given when no earlier day has
\* a summary, and the ratio to the earlier days' mean decides otherwise
C13_ColdStartIffNoPriorDay ==
    ranked.rank # "none" =>
        /\ PriorDays = {} => ranked.rank = "productive"
        /\ PriorDays # {} => ranked.n > 0

\* C14: the baseline is the arithmetic mean of the scores of all summaries
\* of the 30 days before today, each of them counting, today's excluded
C14_BaselineIsMeanOfPriorDays ==
    ranked.rank # "none" =>
        /\ ranked.n = Cardinality(PriorDays)
        /\ ranked.total = SumScores(PriorDays)

\* C15: two generate_today calls in a row, with the log and the other
\* days' summaries untouched, compute the same summary, and when both
\* save it the file of today holds the same content after each
C15_GenerateTwiceSame ==
    \A i \in GenIdx :
        i < Len(gens) =>
            /\ gens[i].summary = gens[i + 1].summary
            /\ (gens[i].raised = "no" /\ gens[i + 1].raised = "no") =>
                   /\ gens[i].stored = gens[i + 1].stored
                   /\ gens[i + 1].stored = gens[i + 1].summary

\* both calls saved, a baseline existed, and before the first call the
\* file of today held another score
C15_Witness ==
    /\ Len(gens) = 2
    /\ gens[1].raised = "no" /\ gens[2].raised = "no"
    /\ ranked.n > 0
    /\ gens[1].stale.kind = "summary"
    /\ gens[1].stale.score > 0
    /\ gens[1].stale.score # gens[1].summary.score
    /\ gens[2].stale = gens[1].summary

\* C16: reading the day's records back skips every malformed line by
\* itself and aggregates all well-formed lines of the day; malformed
\* content never makes the aggregation fail
C16_MalformedLinesSkipped ==
    \A i \in GenIdx :
        /\ gens[i].raised # "AttributeError"
        /\ gens[i].summary.checks = Len(DayRecords(log_file))

\* C17: an I/O failure while the summary is persisted is not raised to the
\* caller of generate_today, which returns the computed summary
C17_SaveFailureNotRaised ==
    \A i \in GenIdx : gens[i].io # "ok" => gens[i].raised # "OSError"

\* ------------------------------------------------------------ the daemon
\* C18: when the append to the persistent log fails with an I/O error,
\* record() returns normally and the in-memory log ends with the new record
C18_FailedAppendKeepsRecord ==
    (last.status # "none" /\ last.append = "oserror") =>
        /\ ~last.record_raised
        /\ latest.status = last.status
        /\ Len(history) > 0
        /\ history[Len(history)].timestamp = last.at
        /\ history[Len(history)].status = last.status

\* two records are in memory and none reached the file
C18_Witness ==
    /\ last.status = "off_task"
    /\ last.append = "oserror"
    /\ Len(history) >= 2
    /\ log_file = <<>>
    /\ ~crashed

\* C19: a cycle without a classifier result records nothing, dispatches
\* nothing, leaves the activity log, the escalation state and the polled
\* status as they were, and the next attempt is the next scheduled cycle
C19_NoResultFrame ==
    [][/\ (ncycles' = ncycles + 1 /\ last'.status = "none") =>
            /\ history' = history
            /\ log_file' = log_file
            /\ alerts' = alerts
            /\ escalation_start' = escalation_start
            /\ last_notification_time' = last_notification_time
            /\ banner_bin' = banner_bin
            /\ latest' = latest
            /\ next_cycle_at' = now + cfg.analysis_interval
       /\ ncycles' # ncycles =>
            /\ ncycles' = ncycles + 1
            /\ now >= next_cycle_at]_vars

\* a cycle without a result came while an off-task run was escalating
C19_Witness ==
    /\ last.status = "none"
    /\ last.at # None
    /\ escalation_start # None
    /\ latest.status = "off_task"
    /\ Len(history) > 0
    /\ Len(alerts) > 0

\* ------------------------------------------------------ the screenshot slot
\* the value of the latest completed store, the empty list before the first
LastWrite == IF writes = <<>> THEN <<>> ELSE writes[Len(writes)]

\* every path of q comes from one capture
OneCapture(q) == \A i, j \in 1..Len(q) : q[i].shot = q[j].shot

\* C20: the snapshot taken at the start of a cycle is the value of the
\* latest completed store into the slot, whole and of one capture, whatever
\* was stored before it unread; no later store changes it while the cycle
\* analyses it
C20_SnapshotIsLatestWrite ==
    [][/\ (cpc = "copy" /\ cpc' = "release") =>
            /\ screenshots' = LastWrite
            /\ OneCapture(screenshots')
       /\ (cpc \in {"release", "analyze"} /\ cpc' # "copy") =>
            screenshots' = screenshots]_vars

\* the cycle analyses the second store, the first was never read, and a
\* third store has completed meanwhile
C20_Witness ==
    /\ cpc = "analyze"
    /\ snaps = <<2>>
    /\ Len(writes) = 3
    /\ screenshots = writes[2]
    /\ Len(screenshots) = DisplayCount
    /\ slot = writes[3]
    /\ slot # screenshots

\* --------------------------------------------------- the tracker in a cycle
\* C24: only record() changes the in-memory log; get_current_streak,
\* get_off_task_duration, check_budgets and format_history, all of which a
\* cycle calls, leave its records and their order as they were
C24_ReadersLeaveLog ==
    [][ncycles' # ncycles =>
          history' = IF last'.status = "none" THEN history
                     ELSE record(history,
                                 AnalysisResult(last'.status, latest'.activity,
                                                now),
                                 now, cfg)]_vars

\* every reader was called on a log of several records and had something
\* to report
C24_Witness ==
    /\ last.status = "off_task"
    /\ Len(history) >= 2
    /\ Len(last.fh.entries) >= 2
    /\ last.off > 0
    /\ last.exceeded # <<>>

\* the estimated duration of the record at index i
GapAfter(h, i) ==
    IF i < Len(h) THEN h[i + 1].timestamp - h[i].timestamp
    ELSE cfg.analysis_interval

\* the indices of the records a budget counts at time t
Counted(h, b, t) ==
    {i \in 1..Len(h) :
        /\ h[i].timestamp >= t - b.per_minutes * SecondsPerMinute
        /\ Contains(LowerText(h[i].activity_description),
                    LowerText(b.activity_pattern))}

RECURSIVE SumGaps(_, _)
SumGaps(h, I) ==
    IF I = {} THEN 0
    ELSE LET i == CHOOSE x \in I : TRUE
         IN  GapAfter(h, i) + SumGaps(h, I \ {i})

\* C29: for each budget check_budgets sums, over the records inside the
\* budget's window whose description contains the pattern whatever the
\* case, the gap to the next record of the log, or the analysis interval
\* for the newest record; other records add nothing
C29_BudgetTotalIsSumOfGaps ==
    last.status # "none" =>
        \A k \in 1..Len(budgets) :
            last.totals[k] = SumGaps(history, Counted(history, budgets[k], last.at))

\* a budget counted a matching record followed by a record that does not
\* match, left out a matching record older than its window, and counted
\* the newest record
C29_Witness ==
    /\ last.status # "none"
    /\ Len(history) = 3
    /\ \E k \in 1..Len(budgets) :
           LET I == Counted(history, budgets[k], last.at)
           IN  /\ 2 \in I
               /\ 3 \in I
               /\ 1 \notin I
               /\ Contains(LowerText(history[1].activity_description),
                           LowerText(budgets[k].activity_pattern))
               /\ last.totals[k] > cfg.analysis_interval

\* q is non-decreasing in timestamp
Ordered(q) == \A i, j \in 1..Len(q) : i <= j => q[i].timestamp <= q[j].timestamp

\* q is the tail of all
IsSuffix(q, all) ==
    /\ Len(q) <= Len(all)
    /\ q = SubSeq(all, Len(all) - Len(q) + 1, Len(all))

\* C30: after every record() the in-memory log is, ordered by timestamp, a
\* contiguous suffix of everything recorded so far, and a successful write
\* has added exactly that record as the last line of the persisted log,
\* kept in memory or not
C30_LogIsSuffixOfRecorded ==
    /\ Ordered(history)
    /\ IsSuffix(history, recorded)
    /\ log_writable =>
           log_file = [i \in 1..Len(recorded) |-> to_json_line(recorded[i])]

\* pruning has dropped the two oldest records, which the file keeps
C30_Witness ==
    /\ Len(recorded) = 3
    /\ Len(history) = 1
    /\ cfg.max_history_entries >= 2
    /\ Len(log_file) = 3
    /\ history[1] = recorded[3]

\* ------------------------------------------------------------ the notifier
\* C25: an off_task sample that the cooldown does not suppress dispatches
\* exactly one alert and sets last_notification_time to now; an unset
\* escalation_start becomes now, and the alert is urgent exactly when
\* now - escalation_start >= escalation_delay, gentle otherwise
C25_UnsuppressedOffTaskAlerts ==
    (last.status = "off_task" /\ ~last.suppressed) =>
        /\ alerts # <<>>
        /\ alerts[Len(alerts)].at = last.at
        /\ \A i \in AlertIdx :
               (i < Len(alerts) /\ alerts[i].at = last.at) =>
                   alerts[i].nth < alerts[Len(alerts)].nth
        /\ last_notification_time = last.at
        /\ escalation_start =
               IF last.esc_before = None THEN last.at ELSE last.esc_before
        /\ last.level =
               IF last.at - escalation_start >= cfg.escalation_delay
               THEN "urgent" ELSE "gentle"

\* C26: an off_task sample inside the cooldown dispatches nothing and
\* leaves last_notification_time and escalation_start as they were, set or
\* unset, whatever the escalation level would be
C26_CooldownFrame ==
    [][(/\ ncycles' # ncycles
        /\ last'.status = "off_task"
        /\ now - last_notification_time < cfg.notification_cooldown) =>
            /\ alerts' = alerts
            /\ last'.level = "none"
            /\ last_notification_time' = last_notification_time
            /\ escalation_start' = escalation_start]_vars

\* a sample was suppressed while the run it belongs to kept growing past
\* the escalation delay, escalation_start staying at its old value
C26_Witness ==
    /\ last.status = "off_task"
    /\ last.suppressed
    /\ last.esc_before # None
    /\ escalation_start = last.esc_before
    /\ escalation_start < last.at
    /\ last.at - escalation_start >= cfg.escalation_delay
    /\ last.off > 0

\* C27 (as stated): a set escalation_start is the time of the first
\* off_task sample processed since the last reset
C27_EscalationStartIsRunFirst ==
    escalation_start # None => escalation_start = run_first

\* C27 (amended): a set escalation_start is the time of the first off_task
\* sample since the last reset that the cooldown did not suppress, the one
\* that dispatched the first alert of the run
C27_EscalationStartIsFirstDispatch ==
    escalation_start # None =>
        /\ run_first # None
        /\ run_first <= escalation_start
        /\ \E i \in AlertIdx :
               /\ alerts[i].nth = 1
               /\ alerts[i].at = escalation_start
               /\ \A j \in AlertIdx : j > i => alerts[j].nth > 1

\* the first sample of the run was suppressed and a later one started the
\* escalation clock
C27_Witness ==
    /\ escalation_start # None
    /\ run_first # None
    /\ run_first < escalation_start
    /\ run_alerts >= 1

\* C28: the message of every urgent alert holds the whole minutes of the
\* off-task duration, whatever else the classification result holds
C28_UrgentMessageHasMinutes ==
    last.level = "urgent" =>
        last.message.minutes = last.off \div SecondsPerMinute

\* --------------------------------------------------- the loop and stop()
\* C21: when stop() runs while the cycle's classification call is in
\* flight and the call returns a result, the cycle has recorded the result
\* in the activity log and run the notification decision by the time the
\* loop exits
C21_InFlightResultIsProcessed ==
    (apc = "returned" /\ flight.stop_in_flight /\ flight.result # NoResult) =>
        /\ {"record", "notify"} \subseteq flight.steps
        /\ recorded # <<>>
        /\ recorded[Len(recorded)] = from_analysis(flight.result)
        /\ last.status = flight.result.status
        /\ last.at = flight.result.timestamp

\* stop() ran during the classification call, the call returned a result
\* and the loop has exited with the record in the log
C21_Witness ==
    /\ apc = "returned"
    /\ ~crashed
    /\ stop_at = "analyze"
    /\ flight.stop_in_flight
    /\ flight.result # NoResult
    /\ {"record", "notify"} \subseteq flight.steps
    /\ history # <<>>
    /\ history[Len(history)] = from_analysis(flight.result)

C23_SharedStateUnderOwnLock ==
    /\ \A a \in accesses :
           a.object \in {"history", "_escalation_start", "_latest_status"} =>
               a.locks \ {"_screenshot_lock"} # {}
    /\ \A a \in accesses :
           "_screenshot_lock" \in a.locks => a.object = "_latest_screenshots"
    /\ lock = "consumer" => apc \in {"copy", "release"}

\* ----------------------------------------------- the notifier, continued
\* C33: after every notify_if_needed call that returned, a set
\* escalation_start means that the sample of the call was off_task and
\* that last_notification_time >= escalation_start
C33_EscalationStartImpliesAlerted ==
    (ncycles > 0 /\ ~crashed /\ escalation_start # None) =>
        /\ last.status = "off_task"
        /\ last_notification_time >= escalation_start

\* a second alert of one off-task run has been dispatched, later than the
\* start of the escalation
C33_Witness ==
    /\ ncycles > 0
    /\ ~crashed
    /\ escalation_start # None
    /\ last.status = "off_task"
    /\ last.level # "none"
    /\ last_notification_time > escalation_start

\* ------------------------------------------------ the tracker and pruning
\* C34: the start of the streak get_current_streak returns is the
\* timestamp of a record the in-memory log retains, the oldest retained
\* record of the trailing run, and so never earlier than the run's true
\* start among all the records handed to record()
C34_StreakFromRetainedRecord ==
    (last.status # "none" /\ history # <<>>) =>
        LET start == last.at - last.streak[2]
        IN  /\ \E i \in 1..Len(history) : history[i].timestamp = start
            /\ start = history[TrailingRunStart(history)].timestamp
            /\ start >= recorded[TrailingRunStart(recorded)].timestamp

\* record() has pruned the oldest record of the run that is still going
\* on, and the streak is measured from a later record of the run
C34_Witness ==
    /\ last.status # "none"
    /\ Len(history) >= 2
    /\ Len(recorded) > Len(history)
    /\ TrailingRunStart(history) = 1
    /\ TrailingRunStart(recorded) <= Len(recorded) - Len(history)
    /\ recorded[TrailingRunStart(recorded)].timestamp
           < last.at - last.streak[2]
    /\ last.streak[2] > 0

\* the indices of all the records handed to record() that the in-memory
\* log still holds
Retained == {j \in 1..Len(recorded) : j > Len(recorded) - Len(history)}

\* C35: check_budgets adds up time only from the records the in-memory
\* log retains: a matching record that record() has pruned adds nothing
\* although its timestamp is inside the budget's window, and the total is
\* at most the time the retained log spans plus one analysis interval
C35_BudgetCountsRetainedOnly ==
    (last.status # "none" /\ history # <<>>) =>
        \A k \in 1..Len(budgets) :
            /\ last.totals[k] =
                   SumGaps(recorded,
                           Counted(recorded, budgets[k], last.at) \cap Retained)
            /\ last.totals[k] <=
                   history[Len(history)].timestamp - history[1].timestamp
                       + cfg.analysis_interval

\* a matching record inside a budget's window was pruned, the window
\* being longer than the history window, and the total misses its time
C35_Witness ==
    /\ last.status # "none"
    /\ history # <<>>
    /\ \E k \in 1..Len(budgets) :
           /\ budgets[k].per_minutes * SecondsPerMinute > cfg.history_window
           /\ \E j \in Counted(recorded, budgets[k], last.at) :
                  /\ j \notin Retained
                  /\ recorded[j].timestamp < last.at - cfg.history_window
           /\ last.totals[k] > 0
           /\ last.totals[k] <
                  SumGaps(recorded, Counted(recorded, budgets[k], last.at))

\* ------------------------------------------------------- the rank, continued
\* the place of a tier in waste of ATP < lazy < nothing special <
\* productive < paul dirac
TierOf(r) == CHOOSE i \in 1..Len(RANKINGS) : RANKINGS[i] = r

\* the scores ranked against the summaries found: those _rank was applied
\* to, the lowest and the highest score
RankProbes == ScoreChoices \cup {0, 2 * NeutralScore}

\* C40: against the same summaries of prior days, a score that is not
\* higher gets a tier that is not higher
C40_RankMonotone ==
    /\ \A a, b \in RankProbes :
           a <= b => TierOf(_rank(summaries, a)) <= TierOf(_rank(summaries, b))
    /\ ranked.rank # "none" =>
           \A a \in RankProbes :
               /\ a <= ranked.score =>
                      TierOf(_rank(summaries, a)) <= TierOf(ranked.rank)
               /\ a >= ranked.score =>
                      TierOf(_rank(summaries, a)) >= TierOf(ranked.rank)

\* a score was ranked in the middle tier against two prior days, a lower
\* score falls in the lowest tier and a higher one in the highest
C40_Witness ==
    /\ ranked.rank = "nothing special"
    /\ ranked.n >= 2
    /\ \E a, b \in RankProbes :
           /\ a < ranked.score
           /\ ranked.score < b
           /\ _rank(summaries, a) = "waste of ATP"
           /\ _rank(summaries, b) = "paul dirac"

\* ----------------------------------------------- the cycle's data flow
\* C31: in each cycle the notification decision receives the off-task
\* duration and the budget violations check_budgets found in that cycle
C31_DecisionReceivesBudgets ==
    last.status # "none" =>
        /\ last.args.off_task_duration = last.off
        /\ "budgets" \in DOMAIN last.args
        /\ last.args.budgets = last.exceeded

\* --------------------------------------------------------- the prompt file
\* the forms the documentation gives: "- <pattern> (max <N> min)" and
\* "- <pattern> (max <N> min per <M> min|hour)", and "(max 15 min per hour)"
Documented(line) ==
    /\ line.bullet = "-"
    /\ \/ line.per = NoPer
       \/ line.per.n # <<>> /\ line.per.unit \in {"min", "hour"}
       \/ line.per.n = <<>> /\ line.per.unit = "hour"

\* C32: when the loader has read a prompt file made of documented budget
\* lines, each line has given exactly one TimeBudget, in order, with the
\* line's pattern and max_minutes = N, and per_minutes = 60 when the line
\* has no per clause
C32_DocumentedLinesParsed ==
    (prompt.exists /\ _mtime = prompt_mtime
        /\ \A i \in 1..Len(prompt.lines) : Documented(prompt.lines[i])) =>
            /\ Len(budgets) = Len(prompt.lines)
            /\ \A i \in 1..Len(budgets) :
                   /\ budgets[i].activity_pattern = prompt.lines[i].pattern
                   /\ budgets[i].max_minutes = IntOf(prompt.lines[i].max)
                   /\ prompt.lines[i].per = NoPer =>
                          budgets[i].per_minutes = DefaultPerMinutes

\* ------------------------------------------------- the status after stop()
\* C37: once stop() has returned, get_status() reports running = false,
\* status "stopped" and an empty activity, whatever the analysis thread
\* was doing when stop() was called
C37_StoppedStatusStays ==
    gpc = "stopped" =>
        /\ ~_running
        /\ latest = [status |-> "stopped", activity |-> <<>>]

\* -------------------------------------------------------- stop() returns
\* C36: stop() returns whenever it is invoked, from the SIGTERM handler of
\* run() too: it gets the status lock and completes
C36_StopReturns == (gpc = "stop_lock") ~> (gpc = "stopped")

\* ------------------------------------------------- one loop of each kind
\* C38: after any run_async() and stop() calls at most one analysis loop
\* is alive, and no capture loop started before a stop() goes on running
\* once a later run_async() has started another
C38_OneLoopOfEachKind ==
    /\ Cardinality({i \in 1..Len(threads) :
                       threads[i].kind = "daemon" /\ threads[i].pc # "exited"})
           <= 1
    /\ \A i \in 1..Len(threads) : ~threads[i].resumed

\* ---------------------------------------------- usage seconds per poll
\* C39: within one day no application's usage seconds decrease, and one
\* step of poll() adds between 0 and 60 seconds to at most one
\* application, with polls of the capture thread and of a save() on
\* another thread running at the same time
C39_PollAddsWithinCap ==
    [][/\ \A a \in UsageApps : _today'[a] - _today[a] \in 0..UsageCap
       /\ Cardinality({a \in UsageApps : _today'[a] # _today[a]}) <= 1]_vars

====
